---- MODULE Spec2Model ----
(***************************************************************************)
(* A model of the LinkedIn article agent: the judge-guided iterative       *)
(* improvement loop (linkedin_article_generator.py with the judge of       *)
(* li_judge_simple.py), the A/B-comparing judge of li_article_judge.py,    *)
(* the context-window budget (context_window_manager.py) and the retrieval *)
(* and packing pipeline (rag_fast.py).                                     *)
(*                                                                         *)
(* Texts are abstracted to what the code reads of them: an article is an   *)
(* identifier with a word count and a character count, an evidence context *)
(* an identifier with a character count, a sentence of a fetched document  *)
(* a record of the attributes the regular expressions test.  Calls to the  *)
(* language model and to the search service are nondeterministic choices   *)
(* over the values they can return, including raising.                     *)
(***************************************************************************)
EXTENDS Integers, Sequences, FiniteSets, TLC

(***************************************************************************)
(* Bounds of the model                                                     *)
(***************************************************************************)
\* Largest iteration ceiling (max_iterations) a run is configured with.
MaxIterations == 2

(***************************************************************************)
(* Program constants                                                       *)
(***************************************************************************)
TargetScorePercentage == 89
WordCountMin == 2000
WordCountMax == 2500
CHARS_PER_TOKEN == 4
CriteriaChars == 4657

Max(a, b) == IF a >= b THEN a ELSE b
Min(a, b) == IF a <= b THEN a ELSE b

(***************************************************************************)
(* State                                                                   *)
(***************************************************************************)
VARIABLES
    \* ---- ContextWindowManager (context_window_manager.py)
    context_window,     \* model_config.context_window
    budget,             \* self._budget, a ContextWindowBudget
    content_parts,      \* the argument of the last validate_content call
    validate_result     \* "none", "ok" (returned True) or "error" (raised)

budgetVars == <<context_window, budget, content_parts, validate_result>>

(***************************************************************************)
(* ContextWindowManager                                                    *)
(***************************************************************************)
\* Largest of the small context windows enumerated besides the configured ones.
MaxContextWindow == 200
\* Largest number of parts of a validated prompt.
MaxParts == 3

\* MODEL_CONFIGS' context windows and ConfiguredLM's default.
ModelContextWindows == {4096, 16385, 32000, 128000, 200000}
ContextWindows == (1..MaxContextWindow) \cup ModelContextWindows

RECURSIVE Pow2From(_, _)
Pow2From(k, p) == IF p > k THEN p ELSE Pow2From(k, 2 * p)
\* The smallest power of two above k.
Pow2Above(k) == Pow2From(k, 1)

\* int(total_tokens * 0.25): 0.25 is a binary fraction, the product is exact.
TruncMul25(t) == (25 * t) \div 100
\* int(total_tokens * 0.15): the double nearest 0.15 lies 0.2 * 2^-55 below it;
\* where 0.15 * t is an integer k the product rounds back to k (4k/3 < 2^(e+2)
\* for k in [2^e, 2^(e+1))), so the truncation is the exact floor.
TruncMul15(t) == (15 * t) \div 100
\* int(total_tokens * 0.35): the double nearest 0.35 lies 0.4 * 2^-54 below it;
\* where 0.35 * t is an integer k the exact product is k - (8k/7) * 2^-54, which
\* rounds (to nearest double) below k when k lies in the top eighth of its
\* binade, and int() then yields k - 1 (int(180 * 0.35) = 62).
TruncMul35(t) ==
    LET k == (35 * t) \div 100
    IN  IF (35 * t) % 100 = 0 /\ 8 * k > 7 * Pow2Above(k) THEN k - 1 ELSE k

\* A plausible slip: allocations rounded up (math.ceil) instead of truncated.
CalculateBudgetCeil(total) ==
    LET up(n) == (n * total + 99) \div 100
    IN  [total_tokens |-> total,
         output_tokens |-> up(25),
         instruction_tokens |-> up(15),
         rag_tokens |-> up(35),
         safety_tokens |-> up(25),
         total_chars |-> total * CHARS_PER_TOKEN,
         output_chars |-> up(25) * CHARS_PER_TOKEN,
         instruction_chars |-> up(15) * CHARS_PER_TOKEN,
         rag_chars |-> up(35) * CHARS_PER_TOKEN,
         safety_chars |-> up(25) * CHARS_PER_TOKEN]

\* ContextWindowManager._calculate_budget
CalculateBudget(total) ==
    LET output_tokens == TruncMul25(total)
        instruction_tokens == TruncMul15(total)
        rag_tokens == TruncMul35(total)
        safety_tokens == TruncMul25(total)
    IN  [total_tokens |-> total,
         output_tokens |-> output_tokens,
         instruction_tokens |-> instruction_tokens,
         rag_tokens |-> rag_tokens,
         safety_tokens |-> safety_tokens,
         total_chars |-> total * CHARS_PER_TOKEN,
         output_chars |-> output_tokens * CHARS_PER_TOKEN,
         instruction_chars |-> instruction_tokens * CHARS_PER_TOKEN,
         rag_chars |-> rag_tokens * CHARS_PER_TOKEN,
         safety_chars |-> safety_tokens * CHARS_PER_TOKEN]

\* ContextWindowManager.get_rag_limit
GetRagLimit(b) == b.rag_chars

\* ContextWindowManager.estimate_tokens_from_chars
EstimateTokensFromChars(char_count) == char_count \div CHARS_PER_TOKEN

\* ContextWindowManager.chars_to_tokens
CharsToTokens(char_count) == EstimateTokensFromChars(char_count)

\* ContextWindowManager.estimate_tokens: the estimate of one text of n
\* characters (NoText stands for None).
NoText == -1
EstimateTokens(n) == IF n = NoText \/ n = 0 THEN 0 ELSE n \div CHARS_PER_TOKEN

\* sum(len(content) for content in content_parts.values() if content): a part
\* is the length of its text, NoText for a part that is None.
RECURSIVE SumPartChars(_)
SumPartChars(parts) ==
    IF parts = <<>> THEN 0
    ELSE (IF Head(parts) > 0 THEN Head(parts) ELSE 0) + SumPartChars(Tail(parts))

\* total - output - safety
AvailableTokens(b) == b.total_tokens - b.output_tokens - b.safety_tokens

\* A plausible slip: the limit itself already counts as exceeded.
ValidateContentStrict(b, parts) ==
    IF EstimateTokensFromChars(SumPartChars(parts)) >= AvailableTokens(b)
    THEN "error" ELSE "ok"

\* ContextWindowManager.validate_content: "error" is ContextWindowError raised,
\* "ok" is True returned; the usage ratio divides by available_tokens.
ValidateContent(b, parts) ==
    LET total_tokens == EstimateTokensFromChars(SumPartChars(parts))
        available_tokens == AvailableTokens(b)
    IN  IF total_tokens > available_tokens THEN "error"
        ELSE IF available_tokens = 0 THEN "ZeroDivisionError"
        ELSE "ok"

\* The lengths the parts of a validated prompt are drawn from.
PartLens == {0, 3, 40}
RECURSIVE SeqsUpTo(_, _)
SeqsUpTo(S, n) ==
    IF n = 0 THEN {<<>>}
    ELSE LET shorter == SeqsUpTo(S, n - 1)
         IN  shorter \cup {Append(q, x) : q \in {r \in shorter : Len(r) = n - 1}, x \in S}
PartsInputs == SeqsUpTo(PartLens, MaxParts)

BudgetInit ==
    /\ context_window \in ContextWindows
    /\ budget = CalculateBudget(context_window)
    /\ content_parts = <<>>
    /\ validate_result = "none"

\* ContextWindowManager.__init__ for another model configuration.
BudgetConstruct ==
    /\ \E cw \in ContextWindows :
          /\ context_window' = cw
          /\ budget' = CalculateBudget(cw)
    /\ content_parts' = <<>>
    /\ validate_result' = "none"

\* A call of validate_content.
BudgetValidate ==
    /\ \E parts \in PartsInputs :
          /\ content_parts' = parts
          /\ validate_result' = ValidateContent(budget, parts)
    /\ UNCHANGED <<context_window, budget>>

(***************************************************************************)
(* LinkedInArticleGenerator: state                                         *)
(***************************************************************************)
VARIABLES
    pc,                 \* where the run stands: "idle", "gen_initial", "judge",
                        \* "decide", "improve", "final"
    max_iterations,     \* self.max_iterations
    auto,               \* self.auto
    recreate_ctx,       \* self.recreate_ctx
    generator_window,   \* models["generator"].context_window
    original_draft,     \* self.original_draft
    versions,           \* self.versions
    current_article,    \* local of _iterative_improvement_process
    current_context,    \* local of _iterative_improvement_process
    iteration,          \* local of _iterative_improvement_process
    result,             \* the dict _iterative_improvement_process returns
    prompt,             \* the prompt the last step handed to the generator or
                        \* the improver and whether that call raised, NoPrompt
                        \* if it handed none
    endReason,          \* how the loop of the last run ended
    judgeCalls,         \* scoring calls issued in this run
    improveCalls,       \* regeneration calls issued in this run
    ragCalls            \* _perform_rag_search calls issued in this run

loopVars == <<pc, max_iterations, auto, recreate_ctx, generator_window,
              original_draft, versions, current_article, current_context,
              iteration, result, prompt, endReason, judgeCalls, improveCalls, ragCalls>>

(***************************************************************************)
(* Texts                                                                   *)
(***************************************************************************)
\* The texts in play: the draft is under the word range; the generator and
\* the improver return the empty text, an article within the range or one
\* over it, and fall back to the text they were given when they fail.
Articles == {"empty", "fit", "long"}
Drafts == {"short"}

\* WordCountManager.count_words of an article.
WordsOf(a) ==
    CASE a = "empty" -> 0
      [] a = "short" -> 1800
      [] a = "fit"   -> 2200
      [] a = "long"  -> 2600

\* len() of an article.
CharsOf(a) ==
    CASE a = "empty" -> 0
      [] a = "short" -> 10800
      [] a = "fit"   -> 13200
      [] a = "long"  -> 15600

\* The evidence contexts retrieve_and_pack can return: "" (no research needed,
\* nothing retrieved, or a failed search) or a packed context.
Contexts == {"", "ctx"}
ContextChars(c) ==
    CASE c = ""    -> 0
      [] c = "ctx" -> 44800

\* The lengths of the remaining prompt parts together (word-count guidance,
\* and for an improvement the feedback and the focus areas).
OtherPartChars == {600, 3000}

\* The context windows of the generator model: ConfiguredLM's default and the
\* default model's.
GeneratorWindows == {4096, 32000}

(***************************************************************************)
(* li_judge_simple.py: scoring and judging                                 *)
(***************************************************************************)
\* The numbers of failed criteria the scorer reports for an article: none
\* (100%) or two (80%, under the target).
ScorerNegatives == {0, 2}

\* compute_performance_tier
ComputePerformanceTier(percentage) ==
    IF percentage >= 90 THEN "World-class"
    ELSE IF percentage >= 75 THEN "Strong"
    ELSE IF percentage >= 60 THEN "Needs work"
    ELSE "Rework before publishing"

\* total = max(0, min(100, 100 - 10 * negatives))
BinaryTotal(negatives) == Max(0, Min(100, 100 - 10 * negatives))

\* WordCountManager.is_within_range
IsWithinRange(word_count, lo, hi) == lo <= word_count /\ word_count <= hi

\* ComprehensiveLinkedInArticleJudge.forward of li_judge_simple.py on an
\* article for which the scorer counted `negatives` failed criteria.
\* user_instructions records whether the user's instructions were prepended
\* to improvement_prompt; overall_feedback names where the feedback text is from.
SimpleJudgeForward(article, negatives) ==
    LET total == BinaryTotal(negatives)
        wc == WordsOf(article)
        length_ok == IsWithinRange(wc, WordCountMin, WordCountMax)
        meets == length_ok /\ (total >= TargetScorePercentage)
    IN  [total_score |-> total,
         max_score |-> 100,
         percentage |-> total,
         performance_tier |-> ComputePerformanceTier(total),
         word_count |-> wc,
         meets_requirements |-> meets,
         user_instructions |-> FALSE,
         overall_feedback |-> "scorer"]

(***************************************************************************)
(* linkedin_article_generator.py                                           *)
(***************************************************************************)
\* The placeholder pending_judgement of _iterative_improvement_process; its
\* word_count (a whitespace split) is overwritten before anything reads it.
PendingJudgement(article) ==
    [total_score |-> 0,
     max_score |-> 100,
     percentage |-> 0,
     performance_tier |-> "Pending",
     word_count |-> WordsOf(article),
     meets_requirements |-> FALSE,
     user_instructions |-> FALSE,
     overall_feedback |-> "None"]

\* A plausible slip: versions numbered from zero.
ArticleVersionZeroBased(n, content, context, judgement) ==
    [version |-> n - 1, content |-> content, context |-> context,
     recreate_ctx |-> recreate_ctx, judgement |-> judgement]

\* ArticleVersion(version, content, context, recreate_ctx, judgement)
ArticleVersion(n, content, context, judgement) ==
    [version |-> n, content |-> content, context |-> context,
     recreate_ctx |-> recreate_ctx, judgement |-> judgement]

NoPrompt == [kind |-> "none", context |-> "", overflowed |-> FALSE, raised |-> FALSE]
NoResult ==
    [final_article |-> "empty",
     final_score |-> PendingJudgement("empty"),
     target_achieved |-> FALSE,
     quality_achieved |-> FALSE,
     length_achieved |-> FALSE,
     iterations_used |-> 0,
     word_count |-> 0]

\* A plausible slip: an off-by-one loop test.
LoopContinuesInclusive(i, n) == i <= Max(1, n)

\* while iteration < max(1, self.max_iterations)
LoopContinues(i, n) == i < Max(1, n)

\* A plausible slip: the automatic mode stops on the quality gate alone.
TargetsAchievedQualityOnly(version) ==
    version.judgement.percentage >= TargetScorePercentage

\* if version.judgement.meets_requirements: ... break
TargetsAchieved(version) == version.judgement.meets_requirements

\* _generate_initial_article after the retrieval returned `rag`: what it
\* returns and the prompt it hands to self.generator, if any.  llm is the
\* article the generator returns, or "raise".
InitialArticle(draft, rag, other, llm, window) ==
    LET b == CalculateBudget(window)
        first == ValidateContent(b, <<CharsOf(draft), ContextChars(rag), CriteriaChars, other>>)
        final_context == IF first = "error" THEN "" ELSE rag
        second == IF first = "error"
                  THEN ValidateContent(b, <<CharsOf(draft), NoText, CriteriaChars, other>>)
                  ELSE first
        sent == (second = "ok")
    IN  [article |-> IF sent /\ llm # "raise" THEN llm ELSE draft,
         context |-> final_context,
         prompt |-> IF sent
                    THEN [kind |-> "generate", context |-> final_context,
                          overflowed |-> (first = "error"),
                          raised |-> (llm = "raise")]
                    ELSE NoPrompt]

\* A plausible slip: a fresh search whatever the flag says.
ImprovementContextFresh(recreate, vs, rag) ==
    [context |-> rag, searched |-> TRUE]

\* The context of an improvement: a fresh _perform_rag_search when
\* recreate_ctx is set (or no version exists yet), the context of the first
\* version otherwise.  rag is what a search returns.
ImprovementContext(recreate, vs, rag) ==
    IF recreate THEN [context |-> rag, searched |-> TRUE]
    ELSE IF vs # <<>> THEN [context |-> vs[1].context, searched |-> FALSE]
    ELSE [context |-> rag, searched |-> TRUE]

\* A plausible slip: falling back to the original draft, as the initial
\* generation does.
ImprovementFallbackToDraft(current, draft) == draft

\* except Exception: return current_article, context or ""
ImprovementFallback(current, draft) == current

\* _generate_improved_version_with_judgement once `context` is determined:
\* the improver is called with `context` itself, which the overflow branch
\* leaves as it was (it empties context_str and content_parts["context"]).
ImprovedVersion(current, draft, context, other, llm, window) ==
    LET b == CalculateBudget(window)
        first == ValidateContent(b, <<CharsOf(current), CharsOf(draft),
                                      ContextChars(context), CriteriaChars, other>>)
        second == IF first = "error"
                  THEN ValidateContent(b, <<CharsOf(current), CharsOf(draft),
                                            NoText, CriteriaChars, other>>)
                  ELSE first
        sent == (second = "ok")
    IN  [article |-> IF sent /\ llm # "raise" THEN llm
                     ELSE ImprovementFallback(current, draft),
         context |-> context,
         prompt |-> IF sent
                    THEN [kind |-> "improve", context |-> context,
                          overflowed |-> (first = "error"),
                          raised |-> (llm = "raise")]
                    ELSE NoPrompt]

\* The tail of _iterative_improvement_process ("Final scoring" onwards).
FinalResult(vs, article, iter) ==
    LET final_judgement == vs[Len(vs)].judgement
        final_word_count == IF final_judgement.word_count # 0
                            THEN final_judgement.word_count
                            ELSE WordsOf(article)
        final_quality_achieved == final_judgement.percentage >= TargetScorePercentage
        final_length_achieved == IsWithinRange(final_word_count, WordCountMin, WordCountMax)
    IN  [final_article |-> article,
         final_score |-> final_judgement,
         target_achieved |-> (final_quality_achieved /\ final_length_achieved),
         quality_achieved |-> final_quality_achieved,
         length_achieved |-> final_length_achieved,
         iterations_used |-> iter,
         word_count |-> final_word_count]

LoopInit ==
    /\ pc = "idle"
    /\ max_iterations \in 0..MaxIterations
    /\ auto \in BOOLEAN
    /\ recreate_ctx \in BOOLEAN
    /\ generator_window \in GeneratorWindows
    /\ original_draft = "empty"
    /\ versions = <<>>
    /\ current_article = "empty"
    /\ current_context = ""
    /\ iteration = 0
    /\ result = NoResult
    /\ prompt = NoPrompt
    /\ endReason = "none"
    /\ judgeCalls = 0
    /\ improveCalls = 0
    /\ ragCalls = 0

config == <<max_iterations, auto, recreate_ctx, generator_window>>

\* generate_article_with_context up to the call of _generate_initial_article.
StartRun ==
    /\ pc = "idle"
    /\ \E draft \in Drafts : original_draft' = draft
    /\ versions' = <<>>
    /\ pc' = "gen_initial"
    /\ current_article' = "empty"
    /\ current_context' = ""
    /\ iteration' = 0
    /\ result' = NoResult
    /\ prompt' = NoPrompt
    /\ endReason' = "none"
    /\ judgeCalls' = 0
    /\ improveCalls' = 0
    /\ ragCalls' = 0
    /\ UNCHANGED config

\* _generate_initial_article (with _perform_rag_search), then the entry of
\* _iterative_improvement_process.
GenerateInitial ==
    /\ pc = "gen_initial"
    /\ \E rag \in Contexts, other \in OtherPartChars, llm \in Articles \cup {"raise"} :
          LET r == InitialArticle(original_draft, rag, other, llm, generator_window)
          IN  /\ current_article' = r.article
              /\ current_context' = r.context
              /\ prompt' = r.prompt
    /\ iteration' = 0
    /\ ragCalls' = ragCalls + 1
    /\ pc' = "judge"
    /\ UNCHANGED <<config, original_draft, versions, result, endReason,
                   judgeCalls, improveCalls>>

\* One pass of the loop body up to the decision: the judge scores
\* current_article and the version is appended.
Judge ==
    /\ pc = "judge"
    /\ iteration' = iteration + 1
    /\ \E negatives \in ScorerNegatives :
          versions' = Append(versions,
                             ArticleVersion(iteration + 1, current_article, current_context,
                                            SimpleJudgeForward(current_article, negatives)))
    /\ judgeCalls' = judgeCalls + 1
    /\ prompt' = NoPrompt
    /\ pc' = "decide"
    /\ UNCHANGED <<config, original_draft, current_article, current_context,
                   result, endReason, improveCalls, ragCalls>>

\* self.judge raises (a failed model call): nothing catches it and the run
\* ends without a result.
JudgeRaises ==
    /\ pc = "judge"
    /\ iteration' = iteration + 1
    /\ judgeCalls' = judgeCalls + 1
    /\ endReason' = "exception"
    /\ prompt' = NoPrompt
    /\ pc' = "idle"
    /\ UNCHANGED <<config, original_draft, versions, current_article,
                   current_context, result, improveCalls, ragCalls>>

\* auto mode: break when the judge says the targets are met.
DecideAuto ==
    /\ pc = "decide"
    /\ auto
    /\ IF TargetsAchieved(versions[Len(versions)])
       THEN pc' = "final" /\ endReason' = "converged"
       ELSE pc' = "improve" /\ UNCHANGED endReason
    /\ UNCHANGED <<config, original_draft, versions, current_article,
                   current_context, iteration, result, prompt, judgeCalls,
                   improveCalls, ragCalls>>

\* interactive mode: the user accepts the version.
UserFinish ==
    /\ pc = "decide"
    /\ ~auto
    /\ pc' = "final"
    /\ endReason' = "finish"
    /\ UNCHANGED <<config, original_draft, versions, current_article,
                   current_context, iteration, result, prompt, judgeCalls,
                   improveCalls, ragCalls>>

\* interactive mode: the user continues, with or without instructions, which
\* are prepended to the improvement_prompt of the judgement the newest
\* version holds.
UserContinue ==
    /\ pc = "decide"
    /\ ~auto
    /\ \E instructions \in BOOLEAN :
          versions' = [versions EXCEPT ![Len(versions)].judgement.user_instructions =
                                           instructions]
    /\ pc' = "improve"
    /\ UNCHANGED <<config, original_draft, current_article, current_context,
                   iteration, result, prompt, endReason, judgeCalls, improveCalls, ragCalls>>

\* _generate_improved_version_with_judgement, then the loop test.
Improve ==
    /\ pc = "improve"
    /\ \E rag \in Contexts, other \in OtherPartChars, llm \in Articles \cup {"raise"} :
          LET chosen == ImprovementContext(recreate_ctx, versions, rag)
              r == ImprovedVersion(current_article, original_draft, chosen.context,
                                   other, llm, generator_window)
          IN  /\ current_article' = r.article
              /\ current_context' = r.context
              /\ prompt' = r.prompt
              /\ ragCalls' = IF chosen.searched THEN ragCalls + 1 ELSE ragCalls
    /\ improveCalls' = improveCalls + 1
    /\ IF LoopContinues(iteration, max_iterations)
       THEN pc' = "judge" /\ UNCHANGED endReason
       ELSE pc' = "final" /\ endReason' = "ceiling"
    /\ UNCHANGED <<config, original_draft, versions, iteration, result, judgeCalls>>

\* "Final scoring" and the return of _iterative_improvement_process.
Finalize ==
    /\ pc = "final"
    /\ result' = FinalResult(versions, current_article, iteration)
    /\ pc' = "idle"
    /\ UNCHANGED <<config, original_draft, versions, current_article,
                   current_context, iteration, prompt, endReason, judgeCalls,
                   improveCalls, ragCalls>>

(***************************************************************************)
(* li_article_judge.py: the judge that compares the latest version with    *)
(* the previous one before scoring it                                      *)
(***************************************************************************)
VARIABLES
    article_versions,   \* the list handed to forward; a version's judgement
                        \* is a reference into judgements
    judgements,         \* the JudgementModel objects, by reference
    ab_pc,              \* "submit": the caller builds the next version,
                        \* "judge": forward runs on the list
    ab_last             \* what the last forward call did

abVars == <<article_versions, judgements, ab_pc, ab_last>>

\* Largest number of versions handed to the comparing judge.
MaxABVersions == 3

\* What the single-call scorer of li_article_judge.py reports for an article:
\* 144/180 (80%) or 171/180 (95%).
ABScores == {[total_score |-> 144, max_score |-> 180],
             [total_score |-> 171, max_score |-> 180]}
ComparisonResults == {"A_better", "B_better", "no_difference", "unexpected"}

\* A plausible slip: a score on a threshold falls into the lower tier.
ArticleJudgeTierStrict(percentage) ==
    IF percentage > 89 THEN "World-class"
    ELSE IF percentage > 72 THEN "Strong"
    ELSE IF percentage > 56 THEN "Needs restructuring"
    ELSE "Rework before publishing"

\* The tier thresholds of li_article_judge.py.
ArticleJudgeTier(percentage) ==
    IF percentage >= 89 THEN "World-class"
    ELSE IF percentage >= 72 THEN "Strong"
    ELSE IF percentage >= 56 THEN "Needs restructuring"
    ELSE "Rework before publishing"

\* A plausible slip: a tie keeps the latest version.
LatestBestOnTie(latest_is_a, comparison_result) ==
    IF comparison_result = "A_better" THEN latest_is_a
    ELSE IF comparison_result = "B_better" THEN ~latest_is_a
    ELSE comparison_result = "no_difference"

\* A plausible slip: the answer is read as if the latest version were always
\* article A.
LatestBestIgnoresSlot(latest_is_a, comparison_result) ==
    comparison_result = "A_better"

\* The decision of compare_versions: is the latest version the better one?
LatestBest(latest_is_a, comparison_result) ==
    IF comparison_result = "A_better" THEN latest_is_a
    ELSE IF comparison_result = "B_better" THEN ~latest_is_a
    ELSE FALSE

NoABCall == [compared |-> FALSE, scored |-> FALSE, kept_previous |-> FALSE,
             length_ok |-> FALSE, draft |-> "empty", latest_is_a |-> FALSE,
             comparison_result |-> "none"]

\* ComprehensiveLinkedInArticleJudge.forward of li_article_judge.py, with
\* compare_versions, on the list vs whose judgement objects are js.
\* latest_is_a is random.choice's result, comparison_result the comparing
\* model's answer, score the scorer's report.
ABJudgeForward(vs, js, latest_is_a, comparison_result, score) ==
    LET n == Len(vs)
        latest == vs[n]
        word_count == WordsOf(latest.content)
        length_achieved == IsWithinRange(word_count, WordCountMin, WordCountMax)
        compared == length_achieved /\ n >= 2
        latest_best == LatestBest(latest_is_a, comparison_result)
        keep_previous == compared /\ ~latest_best
        call == [compared |-> compared,
                 scored |-> (length_achieved /\ ~keep_previous),
                 kept_previous |-> keep_previous,
                 length_ok |-> length_achieved,
                 draft |-> latest.content,
                 latest_is_a |-> (compared /\ latest_is_a),
                 comparison_result |-> IF compared THEN comparison_result ELSE "none"]
    IN  IF ~length_achieved
        THEN \* latest_version.judgement = length_judgement
             [versions |-> vs,
              judgements |-> [js EXCEPT ![latest.judgement] =
                                [total_score |-> 0,
                                 max_score |-> 100,
                                 percentage |-> 0,
                                 performance_tier |-> "Pending",
                                 word_count |-> word_count,
                                 meets_requirements |-> FALSE,
                                 user_instructions |-> FALSE,
                                 overall_feedback |-> "pending_length"]],
              call |-> call]
        ELSE IF keep_previous
        THEN \* compare_versions keeps the previous version: its judgement
             \* object is amended and shared with the latest version
             LET previous == vs[n - 1]
             IN  [versions |-> [vs EXCEPT ![n].content = previous.content,
                                          ![n].judgement = previous.judgement,
                                          ![n].context = previous.context],
                  judgements |-> [js EXCEPT ![previous.judgement].overall_feedback =
                                               IF comparison_result = "no_difference"
                                               THEN "no_difference"
                                               ELSE "previous_better",
                                            ![previous.judgement].meets_requirements = TRUE],
                  call |-> call]
        ELSE \* the latest version is scored into its own judgement object
             LET percentage == (score.total_score * 100) \div score.max_score
                 quality_achieved == percentage >= TargetScorePercentage
             IN  [versions |-> vs,
                  judgements |-> [js EXCEPT ![latest.judgement] =
                                    [total_score |-> score.total_score,
                                     max_score |-> score.max_score,
                                     percentage |-> percentage,
                                     performance_tier |-> ArticleJudgeTier(percentage),
                                     word_count |-> word_count,
                                     meets_requirements |-> quality_achieved,
                                     user_instructions |-> FALSE,
                                     overall_feedback |->
                                        IF compared THEN "latest_better+scorer"
                                        ELSE "scorer"]],
                  call |-> call]

ABInit ==
    /\ article_versions = <<>>
    /\ judgements = <<>>
    /\ ab_pc = "submit"
    /\ ab_last = NoABCall

\* The caller appends the next version, holding a fresh pending judgement.
ABSubmit ==
    /\ ab_pc = "submit"
    /\ Len(article_versions) < MaxABVersions
    /\ \E content \in Articles, context \in Contexts :
          article_versions' =
              Append(article_versions,
                     [version |-> Len(article_versions) + 1,
                      content |-> content,
                      context |-> context,
                      recreate_ctx |-> FALSE,
                      judgement |-> Len(judgements) + 1])
          /\ judgements' = Append(judgements, PendingJudgement(content))
    /\ ab_pc' = "judge"
    /\ UNCHANGED ab_last

\* forward runs on the list.
ABForward ==
    /\ ab_pc = "judge"
    /\ \E latest_is_a \in BOOLEAN, comparison_result \in ComparisonResults,
          score \in ABScores :
          LET r == ABJudgeForward(article_versions, judgements, latest_is_a,
                                  comparison_result, score)
          IN  /\ article_versions' = r.versions
              /\ judgements' = r.judgements
              /\ ab_last' = r.call
    /\ ab_pc' = "submit"

\* The caller starts over with an empty history.
ABRestart ==
    /\ ab_pc = "submit"
    /\ article_versions # <<>>
    /\ article_versions' = <<>>
    /\ judgements' = <<>>
    /\ ab_last' = NoABCall
    /\ UNCHANGED ab_pc

(***************************************************************************)
(* rag_fast.py: the rule-based cleaner and TextPacker.pack                 *)
(*                                                                         *)
(* A passage is a sequence of lines and a line a sequence of sentences,    *)
(* each sentence ending in a terminator and starting with a capital or a   *)
(* digit, so that _SENT_SPLIT cuts exactly between them.  A sentence is    *)
(* known by its length in characters and by what the regular expressions   *)
(* of the cleaner see in it:                                               *)
(*   fact       it matches (\d{2,4}|\d+[%$]) or a year                     *)
(*   digit      it holds a digit                                           *)
(*   deny       it holds "subscribe", "cookie", "privacy policy" or        *)
(*              "terms of use"                                             *)
(*   copyright  it starts with "Copyright" or "All rights reserved"        *)
(*   key        its text lowercased with every \W+ removed                 *)
(***************************************************************************)
Sentence(len, fact, digit, deny, copyright, key) ==
    [len |-> len, fact |-> fact, digit |-> digit, deny |-> deny,
     copyright |-> copyright, key |-> key]

SFact     == Sentence(45, TRUE, TRUE, FALSE, FALSE, "fact")
SFactCaps == Sentence(47, TRUE, TRUE, FALSE, FALSE, "fact")
SLong     == Sentence(130, FALSE, FALSE, FALSE, FALSE, "long")
SMid      == Sentence(60, FALSE, FALSE, FALSE, FALSE, "mid")
SMid2     == Sentence(59, FALSE, TRUE, FALSE, FALSE, "mid2")
SShort    == Sentence(20, FALSE, FALSE, FALSE, FALSE, "short")
SDeny     == Sentence(50, TRUE, TRUE, TRUE, FALSE, "deny")
SRights   == Sentence(44, TRUE, TRUE, FALSE, TRUE, "rights")
SBig      == Sentence(900, TRUE, TRUE, FALSE, FALSE, "big")

\* The passages the packer is given.
Passages ==
    { <<<<SFact>>>>,
      <<<<SLong>>, <<SFact, SFactCaps>>>>,
      <<<<SShort>>, <<SDeny>>, <<SRights>>>>,
      <<<<SBig>>>>,
      <<<<SMid, SMid2>>, <<>>>>,
      <<<<SMid, SRights>>>> }

\* The URL of the i-th passage, and the number of characters in a URL.
UrlAt(i) ==
    CASE i = 1 -> "https://a.io/1"
      [] i = 2 -> "https://a.io/2"
      [] i = 3 -> "https://a.io/3"
      [] OTHER -> "https://a.io/4"
UrlChars(url) == 14

RECURSIVE JoinedLen(_)
\* len(" ".join(sentences))
JoinedLen(sents) ==
    IF sents = <<>> THEN 0
    ELSE IF Len(sents) = 1 THEN sents[1].len
    ELSE sents[1].len + 1 + JoinedLen(Tail(sents))

\* The fallback tokenizer of rag_fast.py: ~4 chars per token.
count_tokens(chars) == Max(1, chars \div 4)

\* _strip_boilerplate keeps a line unless one of its tests drops it.
KeepLine(ln) ==
    /\ ln # <<>>
    /\ ~ \E i \in 1..Len(ln) : ln[i].deny
    /\ ~ ln[1].copyright
    /\ ~ (JoinedLen(ln) < 40 /\ ~ \E i \in 1..Len(ln) : ln[i].digit)

RECURSIVE strip_boilerplate(_)
strip_boilerplate(lines) ==
    IF lines = <<>> THEN <<>>
    ELSE IF KeepLine(Head(lines))
         THEN <<Head(lines)>> \o strip_boilerplate(Tail(lines))
         ELSE strip_boilerplate(Tail(lines))

RECURSIVE SplitSentences(_)
\* _WS.sub(" ", text) then _SENT_SPLIT.split: the sentences of all the lines.
SplitSentences(lines) ==
    IF lines = <<>> THEN <<>>
    ELSE Head(lines) \o SplitSentences(Tail(lines))

IsSalient(s) == s.len >= 40 /\ (s.fact \/ s.len > 120)

salient_sentences(lines) ==
    LET sents == SplitSentences(lines)
        salient == SelectSeq(sents, IsSalient)
    IN  IF sents = <<>> THEN <<>>
        ELSE IF salient # <<>> THEN salient
        ELSE SubSeq(sents, 1, Min(5, Len(sents)))

RECURSIVE DedupeFrom(_, _)
DedupeFrom(items, seen) ==
    IF items = <<>> THEN <<>>
    ELSE IF Head(items).key \in seen
         THEN DedupeFrom(Tail(items), seen)
         ELSE <<Head(items)>> \o DedupeFrom(Tail(items), seen \cup {Head(items).key})

dedupe_keep_order(items) == DedupeFrom(items, {})

RECURSIVE CapRunning(_, _, _)
\* The soft per-document cap: sentences are taken until the next one would
\* bring the joined text over max_per_doc_tokens.
CapRunning(sents, running, max_per_doc_tokens) ==
    IF sents = <<>> THEN running
    ELSE IF count_tokens(JoinedLen(Append(running, Head(sents)))) > max_per_doc_tokens
         THEN running
         ELSE CapRunning(Tail(sents), Append(running, Head(sents)), max_per_doc_tokens)

\* The compressed text of one passage, as its sentences.
Compress(raw, max_per_doc_tokens) ==
    CapRunning(dedupe_keep_order(salient_sentences(strip_boilerplate(raw))),
               <<>>, max_per_doc_tokens)

RECURSIVE CompressAll(_, _, _, _)
\* docs of pack: (url, compressed text) of the passages from the i-th on
\* whose compressed text is not empty.
CompressAll(passages, urls, i, max_per_doc_tokens) ==
    IF i > Len(passages) THEN <<>>
    ELSE LET running == Compress(passages[i], max_per_doc_tokens)
             rest == CompressAll(passages, urls, i + 1, max_per_doc_tokens)
         IN  IF running # <<>>
             THEN <<[url |-> urls[i], body |-> JoinedLen(running),
                     sentences |-> running]>> \o rest
             ELSE rest

\* len("[SOURCE] " + url + "\n" + body + "\n\n")
CandidateChars(url, body_chars) == 9 + UrlChars(url) + 1 + body_chars + 2

\* len(body[: max(200, len(body) // 2)])
HalfChars(body_chars) == Min(body_chars, Max(200, body_chars \div 2))

VARIABLES
    pack_settings,   \* PackSettings of the TextPacker
    pack_passages,   \* the passages of the last pack call
    pack_result,     \* what the last pack call returned
    pack_pc          \* "new": no packer yet, "ready", "done": pack returned

packVars == <<pack_settings, pack_passages, pack_result, pack_pc>>

\* Largest number of passages in one pack call.
MaxDocs == 3

MaxInputTokens == {16, 34, 150, 300, 100000}
ReserveTokens == {0, 2000}
MaxPerDocTokens == {10, 40, 6000}

PackBudget(settings) ==
    Max(1, settings.max_input_tokens - settings.reserve_for_prompt_and_answer)

\* A plausible slip: a block that fills the budget exactly is refused.
FitsStrict(total, c_tokens, pack_budget) == total + c_tokens < pack_budget

\* not (total + c_tokens > budget)
Fits(total, c_tokens, pack_budget) == ~ (total + c_tokens > pack_budget)

RECURSIVE GreedyPackSkips(_, _, _, _)
\* A plausible slip: `continue` for `break`, so that a later, smaller
\* document is taken after one that did not fit.
GreedyPackSkips(docs, i, chunks, pack_budget) ==
    IF i > Len(docs) THEN chunks
    ELSE LET url == docs[i].url
             total == IF chunks = <<>> THEN 0 ELSE chunks[Len(chunks)].total
             full_chars == CandidateChars(url, docs[i].body)
             half_chars == CandidateChars(url, HalfChars(docs[i].body))
             halved == ~Fits(total, count_tokens(full_chars), pack_budget)
             chars == IF halved THEN half_chars ELSE full_chars
         IN  IF Fits(total, count_tokens(chars), pack_budget)
             THEN GreedyPackSkips(docs, i + 1,
                                  Append(chunks, [url |-> url, chars |-> chars,
                                                  c_tokens |-> count_tokens(chars),
                                                  halved |-> halved,
                                                  total |-> total + count_tokens(chars)]),
                                  pack_budget)
             ELSE GreedyPackSkips(docs, i + 1, chunks, pack_budget)

RECURSIVE GreedyPack(_, _, _, _)
\* The greedy loop of pack over docs[i..]: the chunks appended after chunks.
GreedyPack(docs, i, chunks, pack_budget) ==
    IF i > Len(docs) THEN chunks
    ELSE LET url == docs[i].url
             body == docs[i].body
             total == IF chunks = <<>> THEN 0 ELSE chunks[Len(chunks)].total
             full_chars == CandidateChars(url, body)
             half_chars == CandidateChars(url, HalfChars(body))
         IN  IF Fits(total, count_tokens(full_chars), pack_budget)
             THEN GreedyPack(docs, i + 1,
                             Append(chunks, [url |-> url, chars |-> full_chars,
                                             c_tokens |-> count_tokens(full_chars),
                                             halved |-> FALSE,
                                             total |-> total + count_tokens(full_chars)]),
                             pack_budget)
             ELSE IF Fits(total, count_tokens(half_chars), pack_budget)
             THEN GreedyPack(docs, i + 1,
                             Append(chunks, [url |-> url, chars |-> half_chars,
                                             c_tokens |-> count_tokens(half_chars),
                                             halved |-> TRUE,
                                             total |-> total + count_tokens(half_chars)]),
                             pack_budget)
             ELSE chunks

RECURSIVE SumChars(_)
\* len("".join(chunks))
SumChars(chunks) ==
    IF chunks = <<>> THEN 0 ELSE Head(chunks).chars + SumChars(Tail(chunks))

\* TextPacker.pack: the text as its chunks, and the URLs packed.
Pack(settings, passages, urls) ==
    LET docs == CompressAll(passages, urls, 1, settings.max_per_doc_tokens)
        chunks == GreedyPack(docs, 1, <<>>, PackBudget(settings))
    IN  [docs |-> docs,
         chunks |-> chunks,
         text_chars |-> SumChars(chunks),
         chosen_urls |-> [k \in 1..Len(chunks) |-> chunks[k].url]]

NoPack == [docs |-> <<>>, chunks |-> <<>>, text_chars |-> 0, chosen_urls |-> <<>>]
NoSettings == [max_input_tokens |-> 0, reserve_for_prompt_and_answer |-> 0,
               max_per_doc_tokens |-> 0]

PackInit ==
    /\ pack_settings = NoSettings
    /\ pack_passages = <<>>
    /\ pack_result = NoPack
    /\ pack_pc = "new"

\* TextPacker(settings)
PackConstruct ==
    /\ pack_pc \in {"new", "done"}
    /\ \E mi \in MaxInputTokens, r \in ReserveTokens, pd \in MaxPerDocTokens :
          pack_settings' = [max_input_tokens |-> mi,
                            reserve_for_prompt_and_answer |-> r,
                            max_per_doc_tokens |-> pd]
    /\ pack_passages' = <<>>
    /\ pack_result' = NoPack
    /\ pack_pc' = "ready"

\* packer.pack(passages, urls), once on a packer: TextPacker(pack).pack(...)
PackCall ==
    /\ pack_pc = "ready"
    /\ \E passages \in SeqsUpTo(Passages, MaxDocs) :
          /\ pack_passages' = passages
          /\ pack_result' = Pack(pack_settings, passages,
                                  [i \in 1..Len(passages) |-> UrlAt(i)])
    /\ pack_pc' = "done"
    /\ UNCHANGED pack_settings

(***************************************************************************)
(* rag_fast.py: retrieve_and_pack and TavilyWebRetriever                   *)
(***************************************************************************)
VARIABLES
    rag_pc,          \* "idle", "topic", "search", "extract"
    topic_results,   \* the answer of the topic extractor for the current call
    rag_window,      \* context window of models["generator"]
    rag_queries,     \* the queries still to be searched
    rag_urls,        \* the URLs collected from the search responses
    searches,        \* keys of _cache["searches"]
    extractions,     \* keys of _cache["extractions"]
    search_calls,    \* client.search calls issued by the current call
    extract_calls,   \* client.extract calls issued by the current call
    rag_return       \* what the last retrieve_and_pack call returned

ragVars == <<rag_pc, topic_results, rag_window, rag_queries, rag_urls, searches, extractions,
             search_calls, extract_calls, rag_return>>

\* k of retrieve_and_pack.
DocsPerQuery == 6

SearchQueries == {<<>>, <<"q1">>, <<"q2">>, <<"q1", "q2">>}

\* What the search service answers, and the page behind each URL.
SearchResults(query) ==
    CASE query = "topic" -> <<"https://a.io/1", "https://a.io/2">>
      [] query = "q1" -> <<"https://a.io/2", "https://a.io/3">>
      [] OTHER -> <<>>
RawContent(url) ==
    CASE url = "https://a.io/1" -> <<<<SBig>>>>
      [] url = "https://a.io/2" -> <<<<SLong>>, <<SFact, SFactCaps>>>>
      [] OTHER -> <<<<SFact>>>>

RECURSIVE RawChars(_)
\* len(raw) of a passage: its lines joined by newlines.
RawChars(lines) ==
    IF lines = <<>> THEN 0
    ELSE IF Len(lines) = 1 THEN JoinedLen(lines[1])
    ELSE JoinedLen(lines[1]) + 1 + RawChars(Tail(lines))

RECURSIVE unique_stable(_, _)
unique_stable(items, seen) ==
    IF items = <<>> THEN <<>>
    ELSE IF Head(items) \in seen THEN unique_stable(Tail(items), seen)
    ELSE <<Head(items)>> \o unique_stable(Tail(items), seen \cup {Head(items)})

NoReturn == [kind |-> "none", context_chars |-> 0, urls |-> <<>>]
EmptyReturn == [kind |-> "return", context_chars |-> 0, urls |-> <<>>]

\* The PackSettings retrieve_and_pack builds from the generator's window.
RagPackSettings(window) ==
    LET max_rag_tokens == CharsToTokens(GetRagLimit(CalculateBudget(window)))
    IN  [max_input_tokens |-> max_rag_tokens,
         reserve_for_prompt_and_answer |-> 0,
         max_per_doc_tokens |-> max_rag_tokens \div DocsPerQuery]

\* The tail of search_and_extract and of retrieve_and_pack, once the
\* extraction results are known: tiny pages are dropped, the rest is packed.
PackExtracted(result_urls, window) ==
    LET kept == SelectSeq(result_urls, LAMBDA u : RawChars(RawContent(u)) > 200)
        passages == [i \in 1..Len(kept) |-> RawContent(kept[i])]
        packed == Pack(RagPackSettings(window), passages, kept)
    IN  IF kept = <<>> THEN EmptyReturn
        ELSE [kind |-> "return", context_chars |-> packed.text_chars,
              urls |-> packed.chosen_urls]

\* A plausible slip: research whenever a main topic was extracted.
NeedsResearchAlways(topic) == topic.main_topic # ""

\* topic_results.needs_research
NeedsResearch(topic) == topic.needs_research

NoTopic == [main_topic |-> "", search_query |-> <<>>, needs_research |-> FALSE]

RagInit ==
    /\ rag_pc = "idle"
    /\ topic_results = NoTopic
    /\ rag_window = 4096
    /\ rag_queries = <<>>
    /\ rag_urls = <<>>
    /\ searches = {}
    /\ extractions = {}
    /\ search_calls = 0
    /\ extract_calls = 0
    /\ rag_return = NoReturn

\* retrieve_and_pack up to the answer of the topic extractor.
RetrieveTopic ==
    /\ rag_pc = "idle"
    /\ \E window \in GeneratorWindows, needs_research \in BOOLEAN,
          search_query \in SearchQueries :
          /\ rag_window' = window
          /\ topic_results' = [main_topic |-> "topic",
                               search_query |-> search_query,
                               needs_research |-> needs_research]
    /\ rag_urls' = <<>>
    /\ search_calls' = 0
    /\ extract_calls' = 0
    /\ rag_return' = NoReturn
    /\ rag_pc' = "topic"
    /\ UNCHANGED <<rag_queries, searches, extractions>>

\* if topic_results.needs_research: the main topic goes first in the
\* queries; else: return "", [].
RetrieveBranch ==
    /\ rag_pc = "topic"
    /\ IF NeedsResearch(topic_results)
       THEN /\ rag_queries' = <<topic_results.main_topic>> \o topic_results.search_query
            /\ rag_pc' = "search"
            /\ UNCHANGED rag_return
       ELSE /\ rag_return' = EmptyReturn
            /\ rag_pc' = "idle"
            /\ UNCHANGED rag_queries
    /\ UNCHANGED <<rag_window, topic_results, rag_urls, searches, extractions,
                   search_calls, extract_calls>>

\* After the last search: no URL at all ends the call with ("", []).
AfterSearch(urls) ==
    IF Len(rag_queries) > 1
    THEN rag_pc' = "search" /\ rag_return' = rag_return
    ELSE IF urls = <<>>
         THEN rag_pc' = "idle" /\ rag_return' = EmptyReturn
         ELSE rag_pc' = "extract" /\ rag_return' = rag_return

\* _asearch of the next query, served by the cache.
SearchCached ==
    /\ rag_pc = "search"
    /\ Head(rag_queries) \in searches
    /\ rag_urls' = unique_stable(rag_urls \o SearchResults(Head(rag_queries)), {})
    /\ AfterSearch(rag_urls')
    /\ rag_queries' = Tail(rag_queries)
    /\ UNCHANGED <<rag_window, topic_results, searches, extractions, search_calls, extract_calls>>

\* _asearch of the next query, sent to the service, which answers.
SearchNetwork ==
    /\ rag_pc = "search"
    /\ Head(rag_queries) \notin searches
    /\ search_calls' = search_calls + 1
    /\ searches' = searches \cup {Head(rag_queries)}
    /\ rag_urls' = unique_stable(rag_urls \o SearchResults(Head(rag_queries)), {})
    /\ AfterSearch(rag_urls')
    /\ rag_queries' = Tail(rag_queries)
    /\ UNCHANGED <<rag_window, topic_results, extractions, extract_calls>>

\* _asearch of the next query, sent to the service, which raises.
SearchFails ==
    /\ rag_pc = "search"
    /\ Head(rag_queries) \notin searches
    /\ search_calls' = search_calls + 1
    /\ AfterSearch(rag_urls)
    /\ rag_queries' = Tail(rag_queries)
    /\ UNCHANGED <<rag_window, topic_results, rag_urls, searches, extractions, extract_calls>>

\* _aextract of the one batch, then the packing: the cached results come
\* first, the fetched ones after them.
ExtractBatch ==
    /\ rag_pc = "extract"
    /\ LET cached == SelectSeq(rag_urls, LAMBDA u : u \in extractions)
           urls_to_fetch == SelectSeq(rag_urls, LAMBDA u : u \notin extractions)
       IN  /\ extract_calls' = IF urls_to_fetch # <<>> THEN extract_calls + 1
                               ELSE extract_calls
           /\ extractions' = extractions \cup {rag_urls[i] : i \in 1..Len(rag_urls)}
           /\ rag_return' = PackExtracted(cached \o urls_to_fetch, rag_window)
    /\ rag_pc' = "idle"
    /\ rag_urls' = <<>>
    /\ UNCHANGED <<rag_window, topic_results, rag_queries, searches, search_calls>>

\* _aextract of the one batch when client.extract raises: gather hands the
\* exception back and the batch is dropped.
ExtractFails ==
    /\ rag_pc = "extract"
    /\ \E i \in 1..Len(rag_urls) : rag_urls[i] \notin extractions
    /\ extract_calls' = extract_calls + 1
    /\ rag_return' = EmptyReturn
    /\ rag_pc' = "idle"
    /\ rag_urls' = <<>>
    /\ UNCHANGED <<rag_window, topic_results, rag_queries, searches, extractions, search_calls>>

(***************************************************************************)
(* rag_fast.py: the module-level cache, save_cache and the tasks that      *)
(* search_and_extract gathers.  A step is what one task runs between two   *)
(* suspensions of the event loop; save_cache runs in a worker thread while *)
(* its caller holds _cache_lock, one file operation at a time.             *)
(***************************************************************************)
VARIABLES
    cache,         \* _cache: the keys held under "searches" and "extractions"
    cache_lock,    \* the task holding _cache_lock, 0 when it is free
    cache_file,    \* the target cache file
    temp_file,     \* the temp file of the save_cache call in progress
    tasks,         \* the coroutines gather is running, by position
    sae_pc,        \* search_and_extract: "idle", "search", "extract"
    sae_urls,      \* urls after _unique_stable
    sae_return     \* what the last search_and_extract call returned

cacheVars == <<cache, cache_lock, cache_file, temp_file, tasks, sae_pc, sae_urls, sae_return>>

\* The longest list of queries one call is given.
MaxQueries == 2

\* urls[i : i + 20] and urls[:20]
ExtractBatchSize == 20

Queries == {"topic", "q1"}
QueryLists == UNION {[1..n -> Queries] : n \in 1..MaxQueries}
TaskIds == 1..MaxQueries

EmptyCache == [searches |-> {}, extractions |-> {}]

\* A file: absent, or holding the JSON text of a snapshot, whole or cut short.
NoFile == [exists |-> FALSE, complete |-> TRUE, data |-> EmptyCache]
EmptyFile == [exists |-> TRUE, complete |-> FALSE, data |-> EmptyCache]

\* load_cache: a file that parses updates the empty cache, anything else
\* leaves or resets it to {"searches": {}, "extractions": {}}.
load_cache(file) ==
    IF file.exists /\ file.complete THEN file.data ELSE EmptyCache

\* A plausible slip: the finished temp file is copied over the target
\* instead of renamed, so the target passes through a cut-short state.
RenameCopies(temp, target) == [temp EXCEPT !.complete = FALSE]

\* os.rename(temp_path, cache_file): the target becomes the temp file.
Rename(temp, target) == temp

\* A plausible slip: the cache is never consulted.
CacheHitNever(entries, key) == FALSE

\* `cached = ...get(key)` followed by `if cached:`.
CacheHit(entries, key) == key \in entries

NoTask == [kind |-> "none", pc |-> "done", keys |-> <<>>, cached |-> <<>>,
           to_fetch |-> <<>>, response |-> <<>>, outcome |-> "none"]
SearchTask(query) == [NoTask EXCEPT !.kind = "search", !.pc = "check", !.keys = <<query>>]
ExtractTask(urls) == [NoTask EXCEPT !.kind = "extract", !.pc = "check", !.keys = urls]

RECURSIVE Batches(_)
\* [urls[i : i + 20] for i in range(0, len(urls), 20)]
Batches(urls) ==
    IF urls = <<>> THEN <<>>
    ELSE IF Len(urls) <= ExtractBatchSize THEN <<urls>>
    ELSE <<SubSeq(urls, 1, ExtractBatchSize)>>
         \o Batches(SubSeq(urls, ExtractBatchSize + 1, Len(urls)))

RECURSIVE GatheredUrls(_, _)
\* The loops over search_responses and extract_responses: the results of
\* the tasks that did not raise, in task order.
GatheredUrls(ts, t) ==
    IF t > MaxQueries THEN <<>>
    ELSE (IF ts[t].kind # "none" /\ ts[t].outcome = "ok"
          THEN ts[t].cached \o ts[t].response ELSE <<>>)
         \o GatheredUrls(ts, t + 1)

NoSae == [kind |-> "none", urls |-> <<>>]

AllDone == \A t \in TaskIds : tasks[t].pc = "done"

CacheInit ==
    /\ cache = EmptyCache
    /\ cache_lock = 0
    /\ cache_file = NoFile
    /\ temp_file = NoFile
    /\ tasks = [t \in TaskIds |-> NoTask]
    /\ sae_pc = "idle"
    /\ sae_urls = <<>>
    /\ sae_return = NoSae

\* search_and_extract up to the first gather: one _asearch per query.
SaeStart ==
    /\ sae_pc = "idle"
    /\ \E queries \in QueryLists :
          tasks' = [t \in TaskIds |->
                       IF t <= Len(queries) THEN SearchTask(queries[t]) ELSE NoTask]
    /\ sae_pc' = "search"
    /\ sae_urls' = <<>>
    /\ sae_return' = NoSae
    /\ UNCHANGED <<cache, cache_lock, cache_file, temp_file>>

\* _asearch: get_cached_search, then either the cached response is returned
\* or client.search is called.
SearchCheck(t) ==
    /\ tasks[t].kind = "search" /\ tasks[t].pc = "check"
    /\ cache_lock = 0
    /\ tasks' = [tasks EXCEPT ![t] =
                    IF CacheHit(cache.searches, tasks[t].keys[1])
                    THEN [@ EXCEPT !.pc = "done", !.outcome = "ok",
                                   !.cached = SearchResults(tasks[t].keys[1])]
                    ELSE [@ EXCEPT !.pc = "fetch", !.to_fetch = tasks[t].keys]]
    /\ UNCHANGED <<cache, cache_lock, cache_file, temp_file, sae_pc, sae_urls, sae_return>>

\* client.search answers.
SearchAnswers(t) ==
    /\ tasks[t].kind = "search" /\ tasks[t].pc = "fetch"
    /\ tasks' = [tasks EXCEPT ![t] = [@ EXCEPT !.pc = "write",
                                               !.response = SearchResults(tasks[t].keys[1])]]
    /\ UNCHANGED <<cache, cache_lock, cache_file, temp_file, sae_pc, sae_urls, sae_return>>

\* client.search raises: gather keeps the exception as this task's result.
SearchRaises(t) ==
    /\ tasks[t].kind = "search" /\ tasks[t].pc = "fetch"
    /\ tasks' = [tasks EXCEPT ![t] = [@ EXCEPT !.pc = "done", !.outcome = "exception"]]
    /\ UNCHANGED <<cache, cache_lock, cache_file, temp_file, sae_pc, sae_urls, sae_return>>

\* set_cached_search up to the hand-over to the worker thread.
SearchWrite(t) ==
    /\ tasks[t].kind = "search" /\ tasks[t].pc = "write"
    /\ cache_lock = 0
    /\ cache_lock' = t
    /\ cache' = [cache EXCEPT !.searches = @ \cup {tasks[t].keys[1]}]
    /\ tasks' = [tasks EXCEPT ![t] = [@ EXCEPT !.pc = "mkstemp"]]
    /\ UNCHANGED <<cache_file, temp_file, sae_pc, sae_urls, sae_return>>

\* The second gather's tasks are made once every search has finished.
SaeAfterSearch ==
    /\ sae_pc = "search" /\ AllDone
    /\ LET urls == unique_stable(GatheredUrls(tasks, 1), {})
           batches == Batches(urls)
       IN  /\ sae_urls' = urls
           /\ IF urls = <<>>
              THEN /\ sae_pc' = "idle"
                   /\ sae_return' = [kind |-> "return", urls |-> <<>>]
                   /\ UNCHANGED tasks
              ELSE /\ sae_pc' = "extract"
                   /\ sae_return' = sae_return
                   /\ tasks' = [t \in TaskIds |->
                                   IF t <= Len(batches) THEN ExtractTask(batches[t])
                                   ELSE NoTask]
    /\ UNCHANGED <<cache, cache_lock, cache_file, temp_file>>

\* _aextract, the first block under the lock: the batch is split into the
\* cached results and the urls to fetch.
ExtractCheck(t) ==
    /\ tasks[t].kind = "extract" /\ tasks[t].pc = "check"
    /\ cache_lock = 0
    /\ LET urls == SubSeq(tasks[t].keys, 1, Min(Len(tasks[t].keys), ExtractBatchSize))
           cached_results == SelectSeq(urls, LAMBDA u : CacheHit(cache.extractions, u))
           urls_to_fetch == SelectSeq(urls, LAMBDA u : ~CacheHit(cache.extractions, u))
       IN  tasks' = [tasks EXCEPT ![t] =
                        IF urls_to_fetch = <<>>
                        THEN [@ EXCEPT !.pc = "done", !.outcome = "ok",
                                       !.cached = cached_results]
                        ELSE [@ EXCEPT !.pc = "fetch", !.cached = cached_results,
                                       !.to_fetch = urls_to_fetch]]
    /\ UNCHANGED <<cache, cache_lock, cache_file, temp_file, sae_pc, sae_urls, sae_return>>

\* client.extract answers: "results" holds the pages it could read, the
\* others are reported as failed_results.
ExtractAnswers(t) ==
    /\ tasks[t].kind = "extract" /\ tasks[t].pc = "fetch"
    /\ \E read \in SUBSET {tasks[t].to_fetch[i] : i \in 1..Len(tasks[t].to_fetch)} :
          tasks' = [tasks EXCEPT ![t] =
                       [@ EXCEPT !.pc = "write",
                                 !.response = SelectSeq(tasks[t].to_fetch,
                                                        LAMBDA u : u \in read)]]
    /\ UNCHANGED <<cache, cache_lock, cache_file, temp_file, sae_pc, sae_urls, sae_return>>

\* client.extract raises: the cached results of the batch go with it.
ExtractRaises(t) ==
    /\ tasks[t].kind = "extract" /\ tasks[t].pc = "fetch"
    /\ tasks' = [tasks EXCEPT ![t] = [@ EXCEPT !.pc = "done", !.outcome = "exception"]]
    /\ UNCHANGED <<cache, cache_lock, cache_file, temp_file, sae_pc, sae_urls, sae_return>>

\* _aextract, the second block under the lock, up to the hand-over to the
\* worker thread: one entry per item of response["results"].
ExtractWrite(t) ==
    /\ tasks[t].kind = "extract" /\ tasks[t].pc = "write"
    /\ cache_lock = 0
    /\ cache_lock' = t
    /\ cache' = [cache EXCEPT !.extractions =
                    @ \cup {tasks[t].response[i] : i \in 1..Len(tasks[t].response)}]
    /\ tasks' = [tasks EXCEPT ![t] = [@ EXCEPT !.pc = "mkstemp"]]
    /\ UNCHANGED <<cache_file, temp_file, sae_pc, sae_urls, sae_return>>

\* save_cache: tempfile.mkstemp creates an empty file next to the target.
SaveMkstemp(t) ==
    /\ tasks[t].pc = "mkstemp"
    /\ temp_file' = EmptyFile
    /\ tasks' = [tasks EXCEPT ![t] = [@ EXCEPT !.pc = "dump"]]
    /\ UNCHANGED <<cache, cache_lock, cache_file, sae_pc, sae_urls, sae_return>>

\* save_cache: json.dump has written a part of the text.
SaveDumpPart(t) ==
    /\ tasks[t].pc = "dump"
    /\ temp_file' = [exists |-> TRUE, complete |-> FALSE, data |-> cache]
    /\ tasks' = [tasks EXCEPT ![t] = [@ EXCEPT !.pc = "dumping"]]
    /\ UNCHANGED <<cache, cache_lock, cache_file, sae_pc, sae_urls, sae_return>>

\* save_cache: json.dump has written the rest and the file is closed.
SaveDumpRest(t) ==
    /\ tasks[t].pc = "dumping"
    /\ temp_file' = [exists |-> TRUE, complete |-> TRUE, data |-> cache]
    /\ tasks' = [tasks EXCEPT ![t] = [@ EXCEPT !.pc = "rename"]]
    /\ UNCHANGED <<cache, cache_lock, cache_file, sae_pc, sae_urls, sae_return>>

\* save_cache: os.rename; the caller then leaves the lock and returns.
SaveRename(t) ==
    /\ tasks[t].pc = "rename"
    /\ cache_file' = Rename(temp_file, cache_file)
    /\ temp_file' = NoFile
    /\ cache_lock' = 0
    /\ tasks' = [tasks EXCEPT ![t] = [@ EXCEPT !.pc = "done", !.outcome = "ok"]]
    /\ UNCHANGED <<cache, sae_pc, sae_urls, sae_return>>

\* save_cache: any of its file operations raises; the temp file is
\* unlinked, a warning is logged and the caller goes on as after a save.
SaveRaises(t) ==
    /\ tasks[t].pc \in {"mkstemp", "dump", "dumping", "rename"}
    /\ temp_file' = NoFile
    /\ cache_lock' = 0
    /\ tasks' = [tasks EXCEPT ![t] = [@ EXCEPT !.pc = "done", !.outcome = "ok"]]
    /\ UNCHANGED <<cache, cache_file, sae_pc, sae_urls, sae_return>>

\* The loop over extract_responses and the return.
SaeAfterExtract ==
    /\ sae_pc = "extract" /\ AllDone
    /\ sae_return' = [kind |-> "return",
                      urls |-> SelectSeq(GatheredUrls(tasks, 1),
                                         LAMBDA u : RawChars(RawContent(u)) > 200)]
    /\ sae_pc' = "idle"
    /\ UNCHANGED <<cache, cache_lock, cache_file, temp_file, tasks, sae_urls>>

\* The process dies at any point of a call and is started again: the temp
\* file stays behind under a name no later call reuses, the lock and the
\* tasks are gone and load_cache reads the target file.
Crash ==
    /\ sae_pc # "idle"
    /\ cache' = load_cache(cache_file)
    /\ cache_lock' = 0
    /\ tasks' = [t \in TaskIds |-> NoTask]
    /\ sae_pc' = "idle"
    /\ sae_urls' = <<>>
    /\ sae_return' = NoSae
    /\ UNCHANGED <<cache_file, temp_file>>

(***************************************************************************)
(* li_article_judge.py and li_judge_simple.py: the scorers                 *)
(*                                                                         *)
(* One forward call of one scorer per behaviour.  A criterion id Qn is the *)
(* number n, an id that is not in the rubric is 0; a category is its       *)
(* position in SCORING_CRITERIA, a category that is not in the rubric is   *)
(* 0.  Percentages are kept in hundredths of a percent, rounded down,      *)
(* which decides every comparison with a whole threshold as the float      *)
(* does.                                                                   *)
(***************************************************************************)
VARIABLES
    score_pc,      \* "idle" before the call, "done" after it
    scorer,        \* the scorer whose forward ran
    llm_answer,    \* what the model answered during the call
    score_report   \* what forward returned, or that it raised

scoreVars == <<score_pc, scorer, llm_answer, score_report>>

\* SCORING_CRITERIA of li_article_judge.py: the "points" of Q1..Q20 and the
\* category each belongs to.
CriterionPoints == <<15, 15, 15, 20, 20, 15, 15, 5, 5, 5, 5, 5, 5, 5, 5, 5, 5, 5, 5, 5>>
CriterionCategory == <<1, 1, 1, 2, 2, 2, 2, 2, 3, 3, 4, 4, 5, 5, 6, 6, 7, 7, 8, 8>>
CriterionIds == 1..Len(CriterionPoints)
Categories == 1..8

\* expected_criteria_count
ExpectedCriteriaCount == Len(CriterionPoints)

\* validate_criterion_completeness: `if len(v) < 20: raise ValueError`
MinCriterionScores == 20

CriterionScore(criterion_id, category, raw_score, weighted_score, max_points) ==
    [criterion_id |-> criterion_id, category |-> category, raw_score |-> raw_score,
     weighted_score |-> weighted_score, max_points |-> max_points]

\* weighted_score = (raw_score * criterion_points) // 5
WeightedScore(raw_score, criterion_points) == (raw_score * criterion_points) \div 5

RECURSIVE SumWeighted(_)
\* sum(cs.weighted_score for cs in output.criterion_scores)
SumWeighted(scores) ==
    IF scores = <<>> THEN 0 ELSE Head(scores).weighted_score + SumWeighted(Tail(scores))

RECURSIVE SumMaxPoints(_)
\* sum(cs.max_points for cs in output.criterion_scores)
SumMaxPoints(scores) ==
    IF scores = <<>> THEN 0 ELSE Head(scores).max_points + SumMaxPoints(Tail(scores))

\* (total_score / max_score) * 100 if max_score > 0 else 0
Percentage(total_score, max_score) ==
    IF max_score > 0 THEN (total_score * 10000) \div max_score ELSE 0

\* A plausible slip: the total the model reported is kept.
TotalReported(output, scores) == output.total_score

\* total_score of _validate_and_fix_result
TotalRecalculated(output, scores) == SumWeighted(scores)

RECURSIVE MissingCriteria(_, _)
\* The default entries _validate_and_fix_result makes for the rubric ids
\* from Qi on that are not among existing_ids.
MissingCriteria(existing_ids, i) ==
    IF i > ExpectedCriteriaCount THEN <<>>
    ELSE (IF i \notin existing_ids
          THEN <<CriterionScore(i, CriterionCategory[i], 3,
                                WeightedScore(3, CriterionPoints[i]), CriterionPoints[i])>>
          ELSE <<>>)
         \o MissingCriteria(existing_ids, i + 1)

\* FastLinkedInArticleScorer._validate_and_fix_result
ValidateAndFixResult(output) ==
    LET existing_ids == {output.criterion_scores[k].criterion_id :
                            k \in 1..Len(output.criterion_scores)}
        criterion_scores ==
            IF Len(output.criterion_scores) < ExpectedCriteriaCount
            THEN output.criterion_scores \o MissingCriteria(existing_ids, 1)
            ELSE output.criterion_scores
        total_score == TotalRecalculated(output, criterion_scores)
        max_score == SumMaxPoints(criterion_scores)
        percentage == Percentage(total_score, max_score)
    IN  [output EXCEPT !.criterion_scores = criterion_scores,
                       !.total_score = total_score,
                       !.max_score = max_score,
                       !.percentage = percentage,
                       !.performance_tier = ArticleJudgeTier(percentage \div 100)]

\* The ArticleScoreModel a scorer of li_article_judge.py returns;
\* criterion_scores is the list the totals were computed from.
ArticleScore(strategy, criterion_scores, total_score, max_score, percentage, tier) ==
    [raised |-> FALSE, strategy |-> strategy,
     criterion_scores |-> criterion_scores,
     total_score |-> total_score, max_score |-> max_score,
     percentage |-> percentage, performance_tier |-> tier,
     category_scores |->
        [c \in Categories |-> SelectSeq(criterion_scores, LAMBDA cs : cs.category = c)]]

\* forward left by an exception.
Raised(strategy) ==
    [raised |-> TRUE, strategy |-> strategy, criterion_scores |-> <<>>,
     total_score |-> 0, max_score |-> 0, percentage |-> 0, performance_tier |-> "none",
     category_scores |-> [c \in Categories |-> <<>>]]

\* FastLinkedInArticleScorer._convert_to_legacy_format
ConvertToLegacyFormat(comprehensive_result) ==
    ArticleScore("single_call", comprehensive_result.criterion_scores,
                 comprehensive_result.total_score, comprehensive_result.max_score,
                 comprehensive_result.percentage, comprehensive_result.performance_tier)

\* The Field constraints and validators of ComprehensiveArticleScoreOutput
\* that the answers of the model can break.
ComprehensiveOutputValid(output) ==
    /\ output.parsed
    /\ Len(output.criterion_scores) >= MinCriterionScores
    /\ 0 <= output.percentage /\ output.percentage <= 10000

\* score: int = Field(..., ge=1, le=5) of CriterionScoringOutput
ScoreFieldValid(score) == 1 <= score /\ score <= 5

\* score=0 of FallbackResult
FallbackScore == 0

\* The answer of one criterion_scorer call that raised.
CallRaises == 0

RECURSIVE ScoreCriteria(_, _)
\* The loop of LinkedInArticleScorer.forward from Qi on: the entries made,
\* and whether the loop was left by an exception.
ScoreCriteria(calls, i) ==
    IF i > ExpectedCriteriaCount THEN [raised |-> FALSE, scores |-> <<>>]
    ELSE IF calls[i] = CallRaises /\ ~ScoreFieldValid(FallbackScore)
    THEN [raised |-> TRUE, scores |-> <<>>]
    ELSE LET score == IF calls[i] = CallRaises THEN FallbackScore ELSE calls[i]
             raw_score == Max(1, Min(5, score))
             rest == ScoreCriteria(calls, i + 1)
         IN  [raised |-> rest.raised,
              scores |-> <<CriterionScore(i, CriterionCategory[i], raw_score,
                                          WeightedScore(raw_score, CriterionPoints[i]),
                                          CriterionPoints[i])>> \o rest.scores]

\* LinkedInArticleScorer.forward of li_article_judge.py; calls[i] is the
\* score the model gives Qi, or CallRaises.
ArticleScorerReport(calls) ==
    LET loop == ScoreCriteria(calls, 1)
        total_score == SumWeighted(loop.scores)
        max_score == SumMaxPoints(loop.scores)
        percentage == Percentage(total_score, max_score)
    IN  IF loop.raised THEN Raised("per_criterion")
        ELSE ArticleScore("per_criterion", loop.scores, total_score, max_score,
                          percentage, ArticleJudgeTier(percentage \div 100))

\* FastLinkedInArticleScorer.forward of li_article_judge.py: the answer is
\* validated, fixed and converted; any exception on the way hands the
\* article to LinkedInArticleScorer.
FastArticleScorerReport(output, calls) ==
    IF ComprehensiveOutputValid(output)
    THEN ConvertToLegacyFormat(ValidateAndFixResult(output))
    ELSE ArticleScorerReport(calls)

\* The answers of the model to the per-criterion calls: one score for all
\* criteria, and the calls that raise.
RaisingCalls == {{}, {3}, {3, 20}}
CriterionCalls ==
    {[i \in CriterionIds |-> IF i \in raising THEN CallRaises ELSE score] :
        score \in {2, 4, 5}, raising \in RaisingCalls}

\* The answers of the model to the single call: every criterion with one raw
\* score, some criteria left out, an entry repeated or made up, a weighted
\* score that is not what the raw score gives, and totals of its own.
FullAnswer(raw_score) ==
    [i \in CriterionIds |->
        CriterionScore(i, CriterionCategory[i], raw_score,
                       WeightedScore(raw_score, CriterionPoints[i]), CriterionPoints[i])]
LeftOut == {{}, {20}, {1, 20}}
ExtraEntries ==
    {<<>>,
     <<CriterionScore(1, 1, 3, 9, 15)>>,
     <<CriterionScore(0, 0, 5, 5, 5)>>,
     <<CriterionScore(2, 1, 1, 15, 15), CriterionScore(0, 0, 5, 5, 5)>>}
ReportedTotals ==
    {[total_score |-> 180, percentage |-> 10000, performance_tier |-> "World-class"],
     [total_score |-> 0, percentage |-> 0, performance_tier |-> "World-class"],
     [total_score |-> 216, percentage |-> 12000, performance_tier |-> "World-class"]}
ComprehensiveAnswers ==
    {[criterion_scores |->
          SelectSeq(FullAnswer(raw_score), LAMBDA cs : cs.criterion_id \notin left_out)
              \o extra,
      total_score |-> reported.total_score, max_score |-> 180,
      percentage |-> reported.percentage,
      performance_tier |-> reported.performance_tier,
      parsed |-> parsed] :
        raw_score \in {1, 3, 5}, left_out \in LeftOut, extra \in ExtraEntries,
        reported \in ReportedTotals, parsed \in BOOLEAN}

NoAnswer == [kind |-> "none"]
NoReport == Raised("none")

ScoreInit ==
    /\ score_pc = "idle"
    /\ scorer = "none"
    /\ llm_answer = NoAnswer
    /\ score_report = NoReport

\* FastLinkedInArticleScorer(models)(article_text), li_article_judge.py
FastArticleScorerForward ==
    /\ score_pc = "idle"
    /\ \E output \in ComprehensiveAnswers, calls \in CriterionCalls :
          /\ (ComprehensiveOutputValid(output) => calls = [i \in CriterionIds |-> 5])
          /\ llm_answer' = [kind |-> "comprehensive", output |-> output, calls |-> calls]
          /\ score_report' = FastArticleScorerReport(output, calls)
    /\ scorer' = "FastLinkedInArticleScorer"
    /\ score_pc' = "done"

\* LinkedInArticleScorer(models)(article_text), li_article_judge.py
ArticleScorerForward ==
    /\ score_pc = "idle"
    /\ \E calls \in CriterionCalls :
          /\ llm_answer' = [kind |-> "per_criterion", calls |-> calls]
          /\ score_report' = ArticleScorerReport(calls)
    /\ scorer' = "LinkedInArticleScorer"
    /\ score_pc' = "done"

\* li_judge_simple.py: the binary scorers.  Its rubric has the same twenty
\* ids in the same eight categories; an entry of a report is a
\* ScoreResultModel with score 100 or 0.
BinaryItem(criterion_id, passed) == [criterion_id |-> criterion_id, passed |-> passed]

BinaryScore(criterion_id, passed) ==
    CriterionScore(criterion_id, CriterionCategory[criterion_id],
                   IF passed THEN 1 ELSE 0, IF passed THEN 100 ELSE 0, 100)

RECURSIVE CountNegatives(_)
\* negatives += 1 for every item that is scored and did not pass
CountNegatives(scores) ==
    IF scores = <<>> THEN 0
    ELSE (IF Head(scores).weighted_score = 0 THEN 1 ELSE 0) + CountNegatives(Tail(scores))

\* The ArticleScoreModel both binary scorers build from the scored items.
BinaryReport(strategy, scores) ==
    LET total == BinaryTotal(CountNegatives(scores))
    IN  ArticleScore(strategy, scores, total, 100, total * 100,
                     ComputePerformanceTier(total))

\* LinkedInArticleScorer.forward of li_judge_simple.py; calls[i] is the
\* verdict of the model on Qi, or "raises".
BinaryScorerReport(calls) ==
    IF \E i \in CriterionIds : calls[i] = "raises"
    THEN Raised("binary_per_criterion")
    ELSE BinaryReport("binary_per_criterion",
                      [i \in CriterionIds |-> BinaryScore(i, calls[i] = "passed")])

\* FastLinkedInArticleScorer.forward of li_judge_simple.py: an answer that
\* does not parse counts as no items, an item whose id is not in the index
\* is skipped, every other item is scored in the order given.
FastBinaryScorerReport(items, parsed) ==
    LET given == IF parsed THEN items ELSE <<>>
        known == SelectSeq(given, LAMBDA it : it.criterion_id \in CriterionIds)
    IN  BinaryReport("binary_single_call",
                     [k \in 1..Len(known) |->
                         BinaryScore(known[k].criterion_id, known[k].passed)])

\* The verdicts of the model: the first f criteria fail.
FailingCounts == {0, 3, 10, 11, 20}
BinaryCalls ==
    {[i \in CriterionIds |-> IF i \in raising THEN "raises"
                             ELSE IF i <= f THEN "failed" ELSE "passed"] :
        f \in FailingCounts, raising \in {{}, {5}}}
BinaryItemLists ==
    {SelectSeq([i \in CriterionIds |-> BinaryItem(i, i > f)],
               LAMBDA it : it.criterion_id \notin left_out) \o extra :
        f \in FailingCounts, left_out \in LeftOut,
        extra \in {<<>>, <<BinaryItem(1, FALSE)>>, <<BinaryItem(0, FALSE)>>}}

\* LinkedInArticleScorer(models)(article_text), li_judge_simple.py
BinaryScorerForward ==
    /\ score_pc = "idle"
    /\ \E calls \in BinaryCalls :
          /\ llm_answer' = [kind |-> "binary_per_criterion", calls |-> calls]
          /\ score_report' = BinaryScorerReport(calls)
    /\ scorer' = "BinaryLinkedInArticleScorer"
    /\ score_pc' = "done"

\* FastLinkedInArticleScorer(models)(article_text), li_judge_simple.py
FastBinaryScorerForward ==
    /\ score_pc = "idle"
    /\ \E items \in BinaryItemLists, parsed \in BOOLEAN :
          /\ llm_answer' = [kind |-> "binary_single_call", items |-> items,
                            parsed |-> parsed]
          /\ score_report' = FastBinaryScorerReport(items, parsed)
    /\ scorer' = "BinaryFastLinkedInArticleScorer"
    /\ score_pc' = "done"

(***************************************************************************)
(* The tier of a percentage: li_article_judge.py, li_judge_simple.py and   *)
(* progress_dashboard.py                                                   *)
(***************************************************************************)
VARIABLES
    tier_scores,   \* two percentages
    tier_names     \* the tiers the tier functions give each of them

tierVars == <<tier_scores, tier_names>>

\* percentage: float = Field(..., ge=0, le=100)
MaxPercentage == 100
TierPercentages == 0..MaxPercentage

\* self.score_tiers of ProgressDashboard, in insertion order.
ScoreTiers ==
    <<[threshold |-> 89, tier_name |-> "World-class"],
      [threshold |-> 72, tier_name |-> "Strong"],
      [threshold |-> 56, tier_name |-> "Needs restructuring"],
      [threshold |-> 0, tier_name |-> "Rework before publishing"]>>

RECURSIVE FirstTierFrom(_, _)
\* The loop of _get_score_tier from the k-th item on; the default is
\* self.score_tiers[0], the item whose key is 0.
FirstTierFrom(score, k) ==
    IF k > Len(ScoreTiers)
    THEN ScoreTiers[CHOOSE i \in 1..Len(ScoreTiers) : ScoreTiers[i].threshold = 0].tier_name
    ELSE IF score >= ScoreTiers[k].threshold THEN ScoreTiers[k].tier_name
    ELSE FirstTierFrom(score, k + 1)

\* ProgressDashboard._get_score_tier
GetScoreTier(score) == FirstTierFrom(score, 1)

\* How good a tier is.
TierRank(tier_name) ==
    CASE tier_name = "World-class" -> 4
      [] tier_name = "Strong" -> 3
      [] tier_name \in {"Needs restructuring", "Needs work"} -> 2
      [] OTHER -> 1

NoTiers == [judge |-> <<"none", "none">>, dashboard |-> <<"none", "none">>,
            simple |-> <<"none", "none">>]

TierInit ==
    /\ tier_scores \in TierPercentages \X TierPercentages
    /\ tier_names = NoTiers
TierIdle ==
    /\ tier_scores = <<0, 0>>
    /\ tier_names = NoTiers

\* The tier functions applied to both percentages: the cascade of
\* li_article_judge.py, _get_score_tier and compute_performance_tier of
\* li_judge_simple.py.
ClassifyScores ==
    /\ tier_names = NoTiers
    /\ tier_names' = [judge |-> <<ArticleJudgeTier(tier_scores[1]),
                                  ArticleJudgeTier(tier_scores[2])>>,
                      dashboard |-> <<GetScoreTier(tier_scores[1]),
                                      GetScoreTier(tier_scores[2])>>,
                      simple |-> <<ComputePerformanceTier(tier_scores[1]),
                                   ComputePerformanceTier(tier_scores[2])>>]
    /\ UNCHANGED tier_scores

(***************************************************************************)
(* Specifications                                                          *)
(***************************************************************************)
vars == <<loopVars, budgetVars, abVars, packVars, ragVars, cacheVars, scoreVars, tierVars>>

\* The generator before any run, with one fixed configuration.
LoopIdle ==
    /\ LoopInit
    /\ max_iterations = 1
    /\ auto
    /\ ~recreate_ctx
    /\ generator_window = 4096

\* The manager of the default context window.
BudgetIdle == BudgetInit /\ context_window = 4096

LoopOnly == UNCHANGED <<budgetVars, abVars, packVars, ragVars, cacheVars, scoreVars, tierVars>>
BudgetOnly == UNCHANGED <<loopVars, abVars, packVars, ragVars, cacheVars, scoreVars, tierVars>>
ABOnly == UNCHANGED <<loopVars, budgetVars, packVars, ragVars, cacheVars, scoreVars, tierVars>>
PackOnly == UNCHANGED <<loopVars, budgetVars, abVars, ragVars, cacheVars, scoreVars, tierVars>>
RagOnly == UNCHANGED <<loopVars, budgetVars, abVars, packVars, cacheVars, scoreVars, tierVars>>
CacheOnly == UNCHANGED <<loopVars, budgetVars, abVars, packVars, ragVars, scoreVars, tierVars>>
ScoreOnly == UNCHANGED <<loopVars, budgetVars, abVars, packVars, ragVars, cacheVars, tierVars>>
TierOnly == UNCHANGED <<loopVars, budgetVars, abVars, packVars, ragVars, cacheVars, scoreVars>>

\* The improvement loop of linkedin_article_generator.py with the judge of
\* li_judge_simple.py.
Init == LoopInit /\ BudgetIdle /\ ABInit /\ PackInit /\ RagInit /\ CacheInit /\ ScoreInit /\ TierIdle
Next ==
    \/ StartRun /\ LoopOnly
    \/ GenerateInitial /\ LoopOnly
    \/ Judge /\ LoopOnly
    \/ JudgeRaises /\ LoopOnly
    \/ DecideAuto /\ LoopOnly
    \/ UserFinish /\ LoopOnly
    \/ UserContinue /\ LoopOnly
    \/ Improve /\ LoopOnly
    \/ Finalize /\ LoopOnly
Spec == Init /\ [][Next]_vars

\* The context-budget manager.
BudgetSpecInit == LoopIdle /\ BudgetInit /\ ABInit /\ PackInit /\ RagInit /\ CacheInit /\ ScoreInit /\ TierIdle
BudgetSpecNext ==
    \/ BudgetConstruct /\ BudgetOnly
    \/ BudgetValidate /\ BudgetOnly
BudgetSpec == BudgetSpecInit /\ [][BudgetSpecNext]_vars

\* Every other component starts from the one idle state of the rest.
IdleInit == LoopIdle /\ BudgetIdle /\ ABInit /\ PackInit /\ RagInit /\ CacheInit /\ ScoreInit /\ TierIdle

\* The comparing judge of li_article_judge.py.
ABSpecNext ==
    \/ ABSubmit /\ ABOnly
    \/ ABForward /\ ABOnly
    \/ ABRestart /\ ABOnly
ABSpec == IdleInit /\ [][ABSpecNext]_vars

\* TextPacker.pack.
PackSpecNext ==
    \/ PackConstruct /\ PackOnly
    \/ PackCall /\ PackOnly
PackSpec == IdleInit /\ [][PackSpecNext]_vars

\* retrieve_and_pack.
RagSpecNext ==
    \/ RetrieveTopic /\ RagOnly
    \/ RetrieveBranch /\ RagOnly
    \/ SearchCached /\ RagOnly
    \/ SearchNetwork /\ RagOnly
    \/ SearchFails /\ RagOnly
    \/ ExtractBatch /\ RagOnly
    \/ ExtractFails /\ RagOnly
RagSpec == IdleInit /\ [][RagSpecNext]_vars

\* search_and_extract calls, their tasks and crashes.
CacheSpecNext ==
    \/ SaeStart /\ CacheOnly
    \/ (\E t \in TaskIds : SearchCheck(t)) /\ CacheOnly
    \/ (\E t \in TaskIds : SearchAnswers(t)) /\ CacheOnly
    \/ (\E t \in TaskIds : SearchRaises(t)) /\ CacheOnly
    \/ (\E t \in TaskIds : SearchWrite(t)) /\ CacheOnly
    \/ SaeAfterSearch /\ CacheOnly
    \/ (\E t \in TaskIds : ExtractCheck(t)) /\ CacheOnly
    \/ (\E t \in TaskIds : ExtractAnswers(t)) /\ CacheOnly
    \/ (\E t \in TaskIds : ExtractRaises(t)) /\ CacheOnly
    \/ (\E t \in TaskIds : ExtractWrite(t)) /\ CacheOnly
    \/ (\E t \in TaskIds : SaveMkstemp(t)) /\ CacheOnly
    \/ (\E t \in TaskIds : SaveDumpPart(t)) /\ CacheOnly
    \/ (\E t \in TaskIds : SaveDumpRest(t)) /\ CacheOnly
    \/ (\E t \in TaskIds : SaveRename(t)) /\ CacheOnly
    \/ (\E t \in TaskIds : SaveRaises(t)) /\ CacheOnly
    \/ SaeAfterExtract /\ CacheOnly
    \/ Crash /\ CacheOnly
CacheSpec == IdleInit /\ [][CacheSpecNext]_vars

\* One forward call of one of the scorers.
ScorerSpecNext ==
    \/ FastArticleScorerForward /\ ScoreOnly
    \/ ArticleScorerForward /\ ScoreOnly
    \/ BinaryScorerForward /\ ScoreOnly
    \/ FastBinaryScorerForward /\ ScoreOnly
ScorerSpec == IdleInit /\ [][ScorerSpecNext]_vars

\* The tier functions on every pair of whole percentages.
TierSpecInit ==
    LoopIdle /\ BudgetIdle /\ ABInit /\ PackInit /\ RagInit /\ CacheInit /\ ScoreInit /\ TierInit
TierSpecNext ==
    \/ ClassifyScores /\ TierOnly
TierSpec == TierSpecInit /\ [][TierSpecNext]_vars

(***************************************************************************)
(* The improvement loop: C1 to C5                                          *)
(***************************************************************************)
LastVersion == versions[Len(versions)]

\* Both gates on the judgement of a version: the quality gate and the
\* length gate.
GatesPass(version) ==
    /\ version.judgement.percentage >= TargetScorePercentage
    /\ IsWithinRange(version.judgement.word_count, WordCountMin, WordCountMax)

\* The number of steps a run can still take, at most: three per iteration
\* left (score, decide, regenerate) and the final report.
StepsLeft ==
    LET left == 3 * (Max(1, max_iterations) - iteration)
    IN  CASE pc = "idle" -> 0
          [] pc = "final" -> 1
          [] pc = "judge" -> left + 1
          [] pc = "improve" -> left + 2
          [] pc = "decide" -> left + 3
          [] OTHER -> left + 2

\* C1: for any max_iterations = N the loop always terminates: a run that has
\* not ended can always take a step, and every step of a run brings it
\* nearer to its end.  It scores at most max(1, N) versions, the initial
\* version among them, hence at most N generated-and-scored versions plus
\* the initial one, whether or not a gate is ever satisfied.
C1_LoopTerminatesWithinCeiling ==
    /\ [](/\ Len(versions) <= max_iterations + 1
          /\ Len(versions) <= Max(1, max_iterations)
          /\ judgeCalls <= Max(1, max_iterations)
          /\ improveCalls <= Max(1, max_iterations)
          /\ StepsLeft >= 0
          /\ pc # "idle" => ENABLED Next)
    /\ [][pc # "idle" => StepsLeft' < StepsLeft]_vars

\* C1's case: a run that ended at the ceiling of the largest N with every
\* iteration used and the gates never satisfied.
C1_Witness ==
    /\ pc = "idle"
    /\ endReason = "ceiling"
    /\ max_iterations = MaxIterations
    /\ Len(versions) = MaxIterations
    /\ improveCalls = MaxIterations
    /\ \A i \in 1..Len(versions) : ~GatesPass(versions[i])
    /\ ~result.target_achieved

C4_VersionsAppendOrdered ==
    /\ [](/\ \A i \in 1..Len(versions) : versions[i].version = i
          /\ endReason # "exception" => Len(versions) = judgeCalls
          /\ endReason = "exception" => Len(versions) = judgeCalls - 1)
    /\ [][pc # "idle" =>
            /\ Len(versions') \in {Len(versions), Len(versions) + 1}
            /\ judgeCalls' > judgeCalls /\ endReason' # "exception"
                  => Len(versions') = Len(versions) + 1
            /\ \A i \in 1..Len(versions) :
                  /\ versions'[i].version = versions[i].version
                  /\ versions'[i].content = versions[i].content
                  /\ versions'[i].context = versions[i].context]_vars

\* C4's case: a finished run with as many versions as the ceiling allows.
C4_Witness ==
    /\ pc = "idle"
    /\ endReason = "ceiling"
    /\ Len(versions) = MaxIterations
    /\ Len(versions) >= 2
    /\ judgeCalls = MaxIterations
    /\ versions[1].content # versions[2].content

\* C5: when the loop ended at the iteration ceiling, target_achieved is true
\* only if the reported final judgement has percentage >= the target and a
\* word count within [min, max], and the reported score is the judgement
\* the scorer produced for the newest version.
C5_NoFabricatedSuccess ==
    (pc = "idle" /\ endReason = "ceiling") =>
        /\ result.final_score = LastVersion.judgement
        /\ result.target_achieved =>
              /\ result.final_score.percentage >= TargetScorePercentage
              /\ IsWithinRange(result.final_score.word_count,
                               WordCountMin, WordCountMax)

(***************************************************************************)
(* The judges: C2                                                          *)
(***************************************************************************)
\* C2: no judge path leaves meets_requirements = true on a judgement whose
\* percentage is below the target or whose word count is outside [min, max].
C2_MeetsOnlyWhenBothGates ==
    \A j \in 1..Len(judgements) :
        judgements[j].meets_requirements =>
            /\ judgements[j].percentage >= TargetScorePercentage
            /\ IsWithinRange(judgements[j].word_count, WordCountMin, WordCountMax)

(***************************************************************************)
(* The packer: C6 and C7                                                   *)
(***************************************************************************)
\* The token cost of one block as pack counts it:
\* count_tokens("[SOURCE] url\n" + body + "\n\n").
BlockCost(doc) == count_tokens(CandidateChars(doc.url, doc.body))

RECURSIVE SumBlockCosts(_)
SumBlockCosts(docs) ==
    IF docs = <<>> THEN 0 ELSE BlockCost(Head(docs)) + SumBlockCosts(Tail(docs))

RECURSIVE SumCompressedCosts(_, _)
\* The token costs of the compressed texts of the passages, added up.
SumCompressedCosts(passages, max_per_doc_tokens) ==
    IF passages = <<>> THEN 0
    ELSE count_tokens(JoinedLen(Compress(Head(passages), max_per_doc_tokens)))
         + SumCompressedCosts(Tail(passages), max_per_doc_tokens)

\* C6: the token estimate of the whole text pack returns is at most the
\* budget B = max(1, max_input_tokens - reserve_for_prompt_and_answer).
C6_PackedTextWithinBudget ==
    pack_pc = "done" =>
        count_tokens(pack_result.text_chars) <= PackBudget(pack_settings)

\* C7 as stated: if the token costs of all the input documents add up to at
\* most B, the URL of every input document is in the list pack returns.
C7_AllIncludedWhenCostsFit ==
    pack_pc = "done" =>
        (SumCompressedCosts(pack_passages, pack_settings.max_per_doc_tokens)
            <= PackBudget(pack_settings)
         => \A i \in 1..Len(pack_passages) :
               \E k \in 1..Len(pack_result.chosen_urls) :
                  pack_result.chosen_urls[k] = UrlAt(i))

\* C7, amended: if the token costs of the blocks ("[SOURCE] url\n" + body +
\* "\n\n") of the documents whose compressed text is not empty add up to at
\* most B, then the list pack returns holds the URL of each of these
\* documents, in input order, and each is packed whole; a document whose
\* compressed text is empty is in the list for no B.
C7_AllBlocksIncludedWhenBlocksFit ==
    pack_pc = "done" =>
        /\ pack_result.docs =
              CompressAll(pack_passages,
                          [i \in 1..Len(pack_passages) |-> UrlAt(i)], 1,
                          pack_settings.max_per_doc_tokens)
        /\ SumBlockCosts(pack_result.docs) <= PackBudget(pack_settings)
              => /\ pack_result.chosen_urls =
                       [k \in 1..Len(pack_result.docs) |-> pack_result.docs[k].url]
                 /\ \A k \in 1..Len(pack_result.chunks) :
                       ~pack_result.chunks[k].halved
        /\ \A i \in 1..Len(pack_passages) :
              Compress(pack_passages[i], pack_settings.max_per_doc_tokens) = <<>>
                 => \A k \in 1..Len(pack_result.chosen_urls) :
                       pack_result.chosen_urls[k] # UrlAt(i)

\* C7's case: several documents whose blocks fill the budget exactly, all
\* of them packed.
C7_Witness ==
    /\ pack_pc = "done"
    /\ Len(pack_result.docs) >= 2
    /\ SumBlockCosts(pack_result.docs) = PackBudget(pack_settings)
    /\ Len(pack_result.chosen_urls) = Len(pack_result.docs)

(***************************************************************************)
(* The budget manager: C8 and C9                                           *)
(***************************************************************************)
AllocatedTokens(b) ==
    b.output_tokens + b.instruction_tokens + b.rag_tokens + b.safety_tokens

\* C8: for every positive context window the four allocations add up to the
\* total, short of it only by what the four truncations to an integer drop
\* (less than one token each), and never above it.
C8_AllocationsSumWithinTotal ==
    /\ budget = CalculateBudget(context_window)
    /\ budget.total_tokens = context_window
    /\ AllocatedTokens(budget) <= budget.total_tokens
    /\ budget.total_tokens - AllocatedTokens(budget) < 4
    /\ budget.output_tokens >= 0 /\ budget.instruction_tokens >= 0
    /\ budget.rag_tokens >= 0 /\ budget.safety_tokens >= 0

\* C8's case: a window whose allocations fall three tokens short of it.
C8_Witness ==
    /\ budget.total_tokens - AllocatedTokens(budget) = 3
    /\ validate_result # "none"

RECURSIVE SumPartTokens(_)
\* The estimated tokens of every part, added up.
SumPartTokens(parts) ==
    IF parts = <<>> THEN 0
    ELSE EstimateTokens(Head(parts)) + SumPartTokens(Tail(parts))

\* C9 as stated: validate raises exactly when the estimated tokens of the
\* parts, added up part by part, exceed total - output - safety.
C9_RaisesWhenPartEstimatesExceed ==
    validate_result # "none" =>
        /\ validate_result \in {"error", "ok"}
        /\ (validate_result = "error")
              <=> SumPartTokens(content_parts) > AvailableTokens(budget)

\* C9, amended: validate raises exactly when the estimate of the characters
\* of all the non-empty parts taken together, floor(total characters / 4),
\* exceeds total - output - safety, and returns success otherwise.
C9_RaisesWhenTotalEstimateExceeds ==
    validate_result # "none" =>
        /\ validate_result \in {"error", "ok"}
        /\ (validate_result = "error")
              <=> EstimateTokensFromChars(SumPartChars(content_parts))
                     > AvailableTokens(budget)

\* C9's case: parts, an empty one among them, that fill the available
\* tokens exactly and are accepted.
C9_Witness ==
    /\ validate_result = "ok"
    /\ Len(content_parts) = MaxParts
    /\ \E i \in 1..Len(content_parts) : content_parts[i] = 0
    /\ EstimateTokensFromChars(SumPartChars(content_parts)) = AvailableTokens(budget)

(***************************************************************************)
(* Retrieval: C10                                                          *)
(***************************************************************************)
\* C10: when the topic extractor reports needs_research = false, the call
\* issues no search call and no extract call and returns the empty context
\* and the empty URL list.
C10_NoResearchNoNetwork ==
    (topic_results # NoTopic /\ ~topic_results.needs_research) =>
        /\ search_calls = 0
        /\ extract_calls = 0
        /\ rag_pc \in {"topic", "idle"}
        /\ rag_pc = "idle" => rag_return = EmptyReturn

\* C10's case: a call that returned although the extractor had queries to
\* offer, with the cache still empty.
C10_Witness ==
    /\ rag_pc = "idle"
    /\ topic_results # NoTopic
    /\ ~topic_results.needs_research
    /\ topic_results.search_query # <<>>
    /\ rag_return = EmptyReturn
    /\ searches = {}

(***************************************************************************)
(* Claims about the retrieval cache                                        *)
(***************************************************************************)
\* The cache section a task of this kind reads and writes.
EntriesOf(c, kind) == IF kind = "search" THEN c.searches ELSE c.extractions

SeqSet(s) == {s[i] : i \in 1..Len(s)}

\* Task t leaves its cache check in this step.
Checks(t) == tasks[t].pc = "check" /\ tasks'[t].pc # "check" /\ tasks'[t].kind = tasks[t].kind

\* Task t writes its network response into the cache in this step.
Writes(t) == tasks[t].pc = "write" /\ tasks'[t].pc = "mkstemp"

\* C11, as amended: a task asks the network only for keys the cache did not
\* hold when the task checked it, a key the cache held at the check is
\* served from the cache, and after the write that follows a response the
\* cache holds the query searched and every URL the response has a result
\* for.
C11_CacheConsultedAndUpdated ==
    [][\A t \in TaskIds :
          /\ Checks(t) =>
                /\ SeqSet(tasks'[t].to_fetch) \cap EntriesOf(cache, tasks[t].kind) = {}
                /\ \A k \in SeqSet(tasks[t].keys) :
                      k \in EntriesOf(cache, tasks[t].kind) => k \notin SeqSet(tasks'[t].to_fetch)
                /\ tasks'[t].pc = "fetch" <=> tasks'[t].to_fetch # <<>>
          /\ Writes(t) =>
                /\ tasks[t].kind = "search" => tasks[t].keys[1] \in cache'.searches
                /\ tasks[t].kind = "extract" => SeqSet(tasks[t].response) \subseteq cache'.extractions
      ]_vars

\* A request was served from the cache: no network call was made for it.
C11_Witness ==
    /\ \E t \in TaskIds : /\ tasks[t].kind = "search" /\ tasks[t].pc = "done"
                          /\ tasks[t].outcome = "ok" /\ tasks[t].to_fetch = <<>>
    /\ \E t \in TaskIds : /\ tasks[t].kind = "search" /\ tasks[t].pc = "done"
                          /\ tasks[t].outcome = "ok" /\ tasks[t].to_fetch # <<>>

\* C11, as stated: after a successful network response the cache holds an
\* entry under every key that was asked for.
C11_EveryRequestedKeyCached ==
    [][\A t \in TaskIds :
          Writes(t) => SeqSet(tasks[t].to_fetch) \subseteq EntriesOf(cache', tasks[t].kind)
      ]_vars

\* Task t has seen a miss and has not yet written what it fetched.
MissPending(t) == tasks[t].kind # "none" /\ tasks[t].pc \in {"fetch", "write"}

\* C12: the check, the fetch and the write of one request run under one
\* hold of the cache lock; in particular no two tasks are at the same time
\* between the miss and the write of one and the same key.
C12_NoTwoMissesOfOneKey ==
    \A t1, t2 \in TaskIds :
        (t1 # t2 /\ MissPending(t1) /\ MissPending(t2) /\ tasks[t1].kind = tasks[t2].kind)
            => SeqSet(tasks[t1].to_fetch) \cap SeqSet(tasks[t2].to_fetch) = {}

\* C13: the target cache file is at every instant absent (before the first
\* save) or a complete snapshot, whatever step of save_cache a crash hits,
\* and whenever it changes it becomes the complete snapshot of the cache
\* being saved.
C13_CacheFileNeverPartial ==
    /\ [](cache_file.complete)
    /\ [][cache_file' # cache_file =>
             cache_file' = [exists |-> TRUE, complete |-> TRUE, data |-> cache]]_vars

\* The process died while json.dump was writing the temp file; the target
\* still holds the snapshot of an earlier save.
C13_Witness ==
    /\ sae_pc = "idle" /\ sae_return = NoSae
    /\ temp_file.exists /\ ~temp_file.complete /\ temp_file.data # EmptyCache
    /\ cache_file.exists /\ cache_file.data # temp_file.data
    /\ cache = cache_file.data

\* The pages task t had in hand: the cached results of its batch and the
\* results of the response, tiny pages left out.
PagesInHand(t) ==
    SelectSeq(tasks[t].cached \o tasks[t].response,
              LAMBDA u : RawChars(RawContent(u)) > 200)

\* C14: when search_and_extract returns, the content of every URL that was
\* obtained, from the cache or from the service, is in what it returns,
\* whatever other query or URL raised.
C14_OnlyFailedItemDropped ==
    (sae_pc = "idle" /\ sae_return.kind = "return" /\ sae_urls # <<>>)
        => \A t \in TaskIds :
              tasks[t].kind = "extract" => SeqSet(PagesInHand(t)) \subseteq SeqSet(sae_return.urls)

(***************************************************************************)
(* Claims about the cleaner                                                *)
(***************************************************************************)
\* A compressed text read as a passage: " ".join(running) is one line.
AsPassage(running) == IF running = <<>> THEN <<>> ELSE <<running>>

\* C15: compressing the compressed text of a document again, under the
\* same settings, gives the same text.
C15_CompressIdempotent ==
    pack_pc = "done" =>
        \A i \in 1..Len(pack_result.docs) :
            Compress(AsPassage(pack_result.docs[i].sentences),
                     pack_settings.max_per_doc_tokens)
                = pack_result.docs[i].sentences

(***************************************************************************)
(* Claims about the scorers                                                *)
(***************************************************************************)
\* C16: the report the single-call scorer returns has as total_score the
\* sum of the weighted scores of the criterion list it was computed from,
\* as max_score the sum of their max_points, and its percentage and tier
\* are those of these two sums, whatever totals the model reported.
C16_TotalsRecomputedFromCriteria ==
    (scorer = "FastLinkedInArticleScorer" /\ ~score_report.raised) =>
        /\ score_report.total_score = SumWeighted(score_report.criterion_scores)
        /\ score_report.max_score = SumMaxPoints(score_report.criterion_scores)
        /\ score_report.percentage =
              Percentage(score_report.total_score, score_report.max_score)
        /\ score_report.performance_tier = ArticleJudgeTier(score_report.percentage \div 100)

\* The model reported a total, a percentage and a tier that disagree with
\* its own criterion list, and the report carries the recomputed ones.
C16_Witness ==
    /\ scorer = "FastLinkedInArticleScorer"
    /\ ~score_report.raised /\ score_report.strategy = "single_call"
    /\ llm_answer.output.total_score # SumWeighted(llm_answer.output.criterion_scores)
    /\ llm_answer.output.percentage # score_report.percentage
    /\ llm_answer.output.performance_tier # score_report.performance_tier
    /\ score_report.total_score # llm_answer.output.total_score

\* The entries of the returned report, category after category.
RECURSIVE ReportEntries(_)
ReportEntries(c) ==
    IF c > 8 THEN <<>> ELSE score_report.category_scores[c] \o ReportEntries(c + 1)

\* The rubric criteria the report has an entry for.
ReportedIds == {e.criterion_id : e \in SeqSet(ReportEntries(1))} \cap CriterionIds

\* C17: a report returned by a single-call scorer has an entry for every
\* criterion id of the rubric, whatever entries the model returned.
C17_ReportCoversRubric ==
    (scorer \in {"FastLinkedInArticleScorer", "BinaryFastLinkedInArticleScorer"}
        /\ ~score_report.raised)
        => ReportedIds = CriterionIds

\* C18: a forward call of a per-criterion scorer returns a report, with an
\* entry for every criterion, also when a model call for a criterion fails.
C18_FailedCallDoesNotAbort ==
    (scorer \in {"LinkedInArticleScorer", "BinaryLinkedInArticleScorer"})
        => (~score_report.raised /\ ReportedIds = CriterionIds)

\* The rubric criteria that did not pass, by the entries of the report.
FailedCriteria ==
    {e.criterion_id : e \in {x \in SeqSet(ReportEntries(1)) : x.weighted_score = 0}}

\* C19: a report of a binary scorer has total_score = max(0, 100 - 10 * f),
\* f the number of rubric criteria that did not pass, and percentage equal
\* to total_score.
C19_TenPointsPerFailedCriterion ==
    (scorer \in {"BinaryLinkedInArticleScorer", "BinaryFastLinkedInArticleScorer"}
        /\ ~score_report.raised)
        => /\ score_report.total_score = Max(0, 100 - 10 * Cardinality(FailedCriteria))
           /\ score_report.percentage = 100 * score_report.total_score

(***************************************************************************)
(* Claims about the tiers                                                  *)
(***************************************************************************)
\* C20: of two percentages the lower one never gets the better tier, from
\* the scorer's tier assignment and from the dashboard's alike, and both
\* put 56, 72 and 89 themselves into the higher tier.
C20_TiersMonotone ==
    LET TierByThresholds(p) ==
            IF p >= 89 THEN 4 ELSE IF p >= 72 THEN 3 ELSE IF p >= 56 THEN 2 ELSE 1
    IN tier_names # NoTiers =>
        /\ tier_scores[1] < tier_scores[2] =>
              /\ TierRank(tier_names.judge[1]) <= TierRank(tier_names.judge[2])
              /\ TierRank(tier_names.dashboard[1]) <= TierRank(tier_names.dashboard[2])
        /\ \A k \in 1..2 :
              /\ TierRank(tier_names.judge[k]) = TierByThresholds(tier_scores[k])
              /\ TierRank(tier_names.dashboard[k]) = TierByThresholds(tier_scores[k])

\* 88 and 89 were classified: the threshold itself is World-class, the
\* percentage just below it is not.
C20_Witness ==
    /\ tier_scores = <<88, 89>>
    /\ tier_names.judge = <<"Strong", "World-class">>
    /\ tier_names.dashboard = <<"Strong", "World-class">>

(***************************************************************************)
(* The improvement loop: C21, C22, C25 and C29                             *)
(***************************************************************************)
\* C21: when the improvement call raises, the step returns the current draft
\* unmodified, the run goes on to the loop test without an exception and
\* without touching the history, and the next scoring step scores that same
\* draft.
C21_FailedRegenerationIsNoOp ==
    /\ [][pc = "improve" /\ prompt'.raised =>
            /\ current_article' = current_article
            /\ versions' = versions
            /\ endReason' # "exception"
            /\ pc' = (IF LoopContinues(iteration, max_iterations)
                      THEN "judge" ELSE "final")]_vars
    /\ [][pc = "judge" /\ pc' = "decide" =>
            versions'[Len(versions')].content = current_article]_vars

\* C21's case: the improver raised on a generated article that failed a
\* gate, and the loop stands before scoring that article again.
C21_Witness ==
    /\ pc = "judge"
    /\ prompt.kind = "improve"
    /\ prompt.raised
    /\ Len(versions) >= 1
    /\ current_article = LastVersion.content
    /\ current_article # original_draft
    /\ ~GatesPass(LastVersion)

\* C22: whenever the validation of the prompt parts overflowed, the prompt
\* handed to the generator or to the improver carries the empty evidence
\* context, the one the parts were re-validated with.
C22_OverflowSendsEmptyContext ==
    (prompt.kind # "none" /\ prompt.overflowed) => prompt.context = ""

(***************************************************************************)
(* The comparing judge: C23, C27 and C30                                   *)
(***************************************************************************)
\* The forward call that has just returned compared the two newest versions.
JustCompared == ab_pc = "submit" /\ ab_last.compared

\* The comparison preferred the previous version: it named the slot that
\* does not hold the latest one.
PreviousPreferred ==
    \/ ab_last.comparison_result = "A_better" /\ ~ab_last.latest_is_a
    \/ ab_last.comparison_result = "B_better" /\ ab_last.latest_is_a

\* C23: when the comparison finds no difference or prefers the previous
\* version, the newest version carries the previous version's content and a
\* judgement whose feedback notes the outcome, and the scorer was not called
\* on the new draft.
C23_ABOverrideKeepsPrevious ==
    (JustCompared /\ (ab_last.comparison_result = "no_difference" \/ PreviousPreferred)) =>
        LET n == Len(article_versions)
            latest == article_versions[n]
            previous == article_versions[n - 1]
        IN  /\ ab_last.kept_previous
            /\ ~ab_last.scored
            /\ latest.content = previous.content
            /\ judgements[latest.judgement].overall_feedback =
                  (IF ab_last.comparison_result = "no_difference"
                   THEN "no_difference" ELSE "previous_better")

\* C23's case: a tie between two different articles; the new draft is gone
\* from the history.
C23_Witness ==
    /\ JustCompared
    /\ ab_last.comparison_result = "no_difference"
    /\ ab_last.draft # article_versions[Len(article_versions)].content
    /\ ~ab_last.scored

(***************************************************************************)
(* The packer: C24 and C28                                                 *)
(***************************************************************************)
\* The tokens a document would cost after `used` tokens, whole if that fits
\* and halved otherwise.
CostAfter(doc, used, pack_budget) ==
    LET full == count_tokens(CandidateChars(doc.url, doc.body))
        half == count_tokens(CandidateChars(doc.url, HalfChars(doc.body)))
    IN  IF Fits(used, full, pack_budget) THEN full ELSE half

\* The position in the input of the passage with this URL.
InputIndex(url) == CHOOSE i \in 1..Len(pack_passages) : UrlAt(i) = url

\* The tokens packed by a finished call.
PackedTokens ==
    IF pack_result.chunks = <<>> THEN 0
    ELSE pack_result.chunks[Len(pack_result.chunks)].total

\* C24: the sources pack returns are a prefix, in input order, of the
\* documents whose compressed text is not empty, and the first document
\* left out is one that does not fit even halved; no later one is taken.
C24_PackedSourcesArePrefix ==
    pack_pc = "done" =>
        LET docs == pack_result.docs
            chosen == pack_result.chosen_urls
            pack_budget == PackBudget(pack_settings)
        IN  /\ Len(chosen) <= Len(docs)
            /\ \A k \in 1..Len(chosen) : chosen[k] = docs[k].url
            /\ \A k \in 1..(Len(docs) - 1) : InputIndex(docs[k].url) < InputIndex(docs[k + 1].url)
            /\ Len(chosen) < Len(docs) =>
                  ~Fits(PackedTokens,
                        CostAfter(docs[Len(chosen) + 1], PackedTokens, pack_budget),
                        pack_budget)

\* C24's case: the second of three documents does not fit, the third would
\* have, and only the first is packed.
C24_Witness ==
    /\ pack_pc = "done"
    /\ Len(pack_result.docs) = 3
    /\ Len(pack_result.chosen_urls) = 1
    /\ Fits(PackedTokens,
            CostAfter(pack_result.docs[3], PackedTokens, PackBudget(pack_settings)),
            PackBudget(pack_settings))

\* The initial article of the run has been generated.
InitialDone ==
    \/ pc \notin {"idle", "gen_initial"}
    \/ pc = "idle" /\ endReason # "none"

\* C25: without recreate_ctx the run retrieves once, for the initial draft,
\* every improvement is handed the context of the first version and every
\* version records that context; with recreate_ctx it retrieves once more
\* before every improvement.
C25_ContextReusePolicy ==
    /\ ~recreate_ctx =>
          /\ ragCalls = (IF InitialDone THEN 1 ELSE 0)
          /\ \A i \in 1..Len(versions) : versions[i].context = versions[1].context
          /\ prompt.kind = "improve" => prompt.context = versions[1].context
          /\ (InitialDone /\ versions # <<>>) => current_context = versions[1].context
    /\ recreate_ctx =>
          ragCalls = (IF InitialDone THEN 1 ELSE 0) + improveCalls

\* C25's case: a run without recreate_ctx whose second version records the
\* packed context of the first after one improvement and one retrieval.
C25_Witness ==
    /\ ~recreate_ctx
    /\ Len(versions) >= 2
    /\ improveCalls >= 1
    /\ ragCalls = 1
    /\ versions[1].context = "ctx"
    /\ versions[2].context = "ctx"
    /\ versions[2].content # versions[1].content

\* C26: the weighted scorers and the binary scorers give every percentage
\* the same one of the four tiers.
C26_SameTierFunction ==
    tier_names # NoTiers =>
        \A k \in 1..2 :
            TierRank(tier_names.simple[k]) = TierRank(tier_names.judge[k])

\* C27: a step leaves every version that has a newer one after it as it
\* was: its content, its context and its judgement.
C27_SupersededNeverMutated ==
    [][\A i \in 1..(Len(article_versions) - 1) :
          i <= Len(article_versions') =>
              /\ article_versions'[i].content = article_versions[i].content
              /\ article_versions'[i].context = article_versions[i].context
              /\ judgements'[article_versions'[i].judgement] =
                    judgements[article_versions[i].judgement]]_vars

\* C28: every passage with text in it has a compressed text that is not
\* empty and is among the documents the greedy loop chooses from.
C28_NoDocumentDropped ==
    pack_pc = "done" =>
        \A i \in 1..Len(pack_passages) :
            SplitSentences(pack_passages[i]) # <<>> =>
                \E k \in 1..Len(pack_result.docs) : pack_result.docs[k].url = UrlAt(i)

\* C29: however the loop ended, the article returned as final_article is the
\* content of the last version, the one the returned judgement is about and
\* export_results writes.
C29_FinalArticleIsLastVersion ==
    (pc = "idle" /\ endReason \in {"converged", "finish", "ceiling"}) =>
        /\ result.final_article = LastVersion.content
        /\ result.final_score = LastVersion.judgement

\* The comparison named the slot that holds the latest version.
LatestNamed ==
    \/ ab_last.comparison_result = "A_better" /\ ab_last.latest_is_a
    \/ ab_last.comparison_result = "B_better" /\ ~ab_last.latest_is_a

\* C30: whichever slot the latest version was put in, it is kept (and
\* scored) exactly when the comparison named that slot; after every other
\* answer the newest version holds the previous version's content.
C30_DecisionIndependentOfSlot ==
    JustCompared =>
        LET n == Len(article_versions)
        IN  /\ LatestNamed =>
                  /\ ~ab_last.kept_previous
                  /\ ab_last.scored
                  /\ article_versions[n].content = ab_last.draft
                  /\ article_versions[n].judgement # article_versions[n - 1].judgement
            /\ ~LatestNamed =>
                  /\ ab_last.kept_previous
                  /\ ~ab_last.scored
                  /\ article_versions[n].content = article_versions[n - 1].content
                  /\ article_versions[n].judgement = article_versions[n - 1].judgement

\* C30's case: the latest version sat in slot B, the comparison answered
\* B_better, and the latest version, which differs from the previous one,
\* was kept.
C30_Witness ==
    /\ JustCompared
    /\ ~ab_last.latest_is_a
    /\ ab_last.comparison_result = "B_better"
    /\ ab_last.scored
    /\ article_versions[Len(article_versions)].content = ab_last.draft
    /\ article_versions[Len(article_versions)].content #
          article_versions[Len(article_versions) - 1].content

====
